---- MODULE Spec2Model ----
(***************************************************************************)
(* Model of the news generator: the generator endpoint (GET), its feed     *)
(* join, candidate selector, translation pipeline with the in-memory       *)
(* circuit breaker, and the translate endpoint (POST).                     *)
(*                                                                         *)
(* Texts are symbolic terms (tagged tuples): <<"title", id>> is the title  *)
(* of feed item id, <<"libre", t>> is LibreTranslate's translation of t,   *)
(* <<"slice220", t>> is t.slice(0, 220), and so on.  The clock counts in   *)
(* units of 1000 ms.                                                       *)
(***************************************************************************)
EXTENDS Integers, Sequences, FiniteSets, TLC

\* ------------------------------------------------------------------ bounds

\* AI_COOLDOWN_MS of the environment, in clock units (AI_COOLDOWN_MS = 3000).
cooldownMs == 3

\* Date.now() when the process starts: past any cooldown (epoch time).
StartTime == cooldownMs + 1

\* The clock stops once a failure at StartTime is a cooldown and a unit old.
MaxTime == StartTime + cooldownMs + 1

\* --------------------------------------------------------- program constants

MinCount == 3
MaxCount == 10
MaxPerHost == 2
OverFetch == 2

\* ------------------------------------------------------------ symbolic text

Empty == <<"empty">>
Undefined == <<"undef">>
\* A JSON value that is truthy and not a string (a number, an array, ...).
NonString == <<"nonstring">>

\* A string of white space only: truthy, and empty once trimmed.
Blank == <<"blank">>

\* !t.trim() of a string t.
TrimsToEmpty(t) == t = Empty \/ t = Blank

\* JavaScript truthiness of a text-or-undefined value.
Truthy(t) == t # Empty /\ t # Undefined

\* a || b
Or(a, b) == IF Truthy(a) THEN a ELSE b

IsString(t) == t # Undefined /\ t # NonString

\* t.slice(0, 220)
Slice220(t) == IF t = Empty THEN Empty ELSE <<"slice220", t>>

\* ------------------------------------------------------------ numbers (NaN)

NaN == [nan |-> TRUE, v |-> 0]
Num(n) == [nan |-> FALSE, v |-> n]

Digits == <<"0", "1", "2", "3", "4", "5", "6", "7", "8", "9">>
IsDigit(c) == \E d \in 1..10 : Digits[d] = c
DigitOf(c) == (CHOOSE d \in 1..10 : Digits[d] = c) - 1

RECURSIVE DigitPrefix(_, _)
\* Value of the longest prefix of digits of s, starting from accumulator acc.
DigitPrefix(s, acc) ==
  IF s = <<>> \/ ~IsDigit(Head(s)) THEN acc
  ELSE DigitPrefix(Tail(s), acc * 10 + DigitOf(Head(s)))

RECURSIVE SkipSpace(_)
SkipSpace(s) == IF s # <<>> /\ Head(s) = " " THEN SkipSpace(Tail(s)) ELSE s

\* Number.parseInt(s): leading blanks, an optional sign, the longest run of
\* digits; NaN when no digit follows.
parseInt(s) ==
  LET t == SkipSpace(s)
      neg == t # <<>> /\ Head(t) = "-"
      u == IF t # <<>> /\ Head(t) \in {"-", "+"} THEN Tail(t) ELSE t
  IN IF u = <<>> \/ ~IsDigit(Head(u)) THEN NaN
     ELSE Num(IF neg THEN 0 - DigitPrefix(u, 0) ELSE DigitPrefix(u, 0))

\* a < b, a > b, a >= b on numbers: every comparison with NaN is false.
NumLt(a, b) == ~a.nan /\ ~b.nan /\ a.v < b.v
NumGt(a, b) == ~a.nan /\ ~b.nan /\ a.v > b.v
NumGe(a, b) == ~a.nan /\ ~b.nan /\ a.v >= b.v

\* Math.min(a, b): NaN if either is NaN.
MathMin(a, b) == IF a.nan \/ b.nan THEN NaN ELSE Num(IF a.v < b.v THEN a.v ELSE b.v)

\* arr.slice(0, n): NaN is converted to 0.
SliceTo(arr, n) ==
  LET k == IF n.nan \/ n.v < 0 THEN 0 ELSE IF n.v > Len(arr) THEN Len(arr) ELSE n.v
  IN SubSeq(arr, 1, k)

\* --------------------------------------------------------------- registry

Null == "<null>"

\* RSS_SOURCES[region]?.[category]: the feed ids of the pair, <<>> standing for
\* undefined (region or category not in the registry).
RSS_SOURCES(region, category) ==
  IF region = "intl" /\ category = "Drama" THEN <<1, 2>>
  ELSE IF region \in {"th", "intl"} /\
          category \in {"Hot", "Drama", "Business", "Tech", "Entertainment", "Lifestyle"}
       THEN <<1, 2, 3>>
       ELSE <<>>

\* ------------------------------------------------------------- feed bodies

\* What each upstream feed serves when it answers with XML: the entries of
\* its body with title, link, date and description already extracted.  A link
\* is <<"url", host, id>> (an absolute URL on the host numbered host) or
\* <<"path", id>> (a relative path, which new URL() rejects).
Entry(id, title, link, pubDate, description) ==
  [id |-> id, title |-> title, link |-> link, pubDate |-> pubDate,
   description |-> description]

FeedBody(f) ==
  IF f = 1 THEN
    << Entry(1, <<"title", 1>>, <<"url", 1, 1>>, 2, <<"desc", 1>>) >>
  ELSE IF f = 2 THEN
    << Entry(3, <<"title", 3>>, <<"path", 3>>, 1, <<"desc", 3>>),
       Entry(2, <<"title", 2>>, <<"url", 2, 2>>, 3, Empty),
       Entry(4, Empty, <<"url", 1, 4>>, 1, <<"desc", 4>>) >>
  ELSE <<>>

FeedOutcomes == {"network_error", "non_ok", "not_xml", "ok", "ok_empty"}

RECURSIVE KeepTitled(_)
\* if (title && link) items.push(...)
KeepTitled(entries) ==
  IF entries = <<>> THEN <<>>
  ELSE LET e == Head(entries)
       IN (IF Truthy(e.title) /\ Truthy(e.link) THEN <<e>> ELSE <<>>)
          \o KeepTitled(Tail(entries))

\* parseRSS(url): the items of feed f under a fetch outcome; never rejects.
parseRSS(f, outcome) ==
  IF outcome = "ok" THEN KeepTitled(FeedBody(f)) ELSE <<>>

\* new URL(link) succeeds only for an absolute URL.
IsAbsoluteURL(link) == link[1] = "url"
Hostname(link) == link[2]

RECURSIVE CollectItems_NoUrlCheck(_)
\* The inner loop without new URL(item.link): every item is pushed.
CollectItems_NoUrlCheck(items) ==
  IF items = <<>> THEN <<>>
  ELSE LET it == Head(items)
       IN << [id |-> it.id, title |-> it.title, link |-> it.link,
              pubDate |-> it.pubDate, hostname |-> Hostname(it.link),
              description |-> it.description] >>
          \o CollectItems_NoUrlCheck(Tail(items))

RECURSIVE CollectItems_AbortFeed(_)
\* The inner loop with the try/catch around it: the first link that does not
\* parse ends the feed.
CollectItems_AbortFeed(items) ==
  IF items = <<>> THEN <<>>
  ELSE LET it == Head(items)
       IN IF IsAbsoluteURL(it.link)
          THEN << [id |-> it.id, title |-> it.title, link |-> it.link,
                   pubDate |-> it.pubDate, hostname |-> Hostname(it.link),
                   description |-> it.description] >>
               \o CollectItems_AbortFeed(Tail(items))
          ELSE <<>>

RECURSIVE CollectItems(_)
\* The inner loop of candidate collection: items whose link does not parse
\* are logged and dropped.
CollectItems(items) ==
  IF items = <<>> THEN <<>>
  ELSE LET it == Head(items)
       IN (IF IsAbsoluteURL(it.link)
           THEN << [id |-> it.id, title |-> it.title, link |-> it.link,
                    pubDate |-> it.pubDate, hostname |-> Hostname(it.link),
                    description |-> it.description] >>
           ELSE <<>>)
          \o CollectItems(Tail(items))

RECURSIVE CollectCandidates(_)
\* The outer loop over feedResults (every result is fulfilled).
CollectCandidates(results) ==
  IF results = <<>> THEN <<>>
  ELSE CollectItems(Head(results).value) \o CollectCandidates(Tail(results))

\* ---------------------------------------------------------------- selector

RECURSIVE InsertByRecency_Unstable(_, _)
\* Insertion that puts c before the elements of its own date.
InsertByRecency_Unstable(sorted, c) ==
  IF sorted = <<>> THEN <<c>>
  ELSE IF Head(sorted).pubDate > c.pubDate
       THEN <<Head(sorted)>> \o InsertByRecency_Unstable(Tail(sorted), c)
       ELSE <<c>> \o sorted

RECURSIVE InsertByRecency(_, _)
\* Insert c after every element that is at least as recent (stable).
InsertByRecency(sorted, c) ==
  IF sorted = <<>> THEN <<c>>
  ELSE IF Head(sorted).pubDate >= c.pubDate
       THEN <<Head(sorted)>> \o InsertByRecency(Tail(sorted), c)
       ELSE <<c>> \o sorted

RECURSIVE SortByRecency(_)
\* candidates.sort((a, b) => b.pubDate - a.pubDate): stable, most recent first.
SortByRecency(cands) ==
  IF cands = <<>> THEN <<>>
  ELSE InsertByRecency(SortByRecency(SubSeq(cands, 1, Len(cands) - 1)),
                       cands[Len(cands)])

HostCount(sel, h) == Cardinality({k \in 1..Len(sel) : sel[k].hostname = h})

RECURSIVE Walk_LateBreak(_, _, _, _)
\* The walk with the break test > in place of >=.
Walk_LateBreak(cands, k, sel, count) ==
  IF k > Len(cands) THEN sel
  ELSE LET c == cands[k]
           sel2 == IF HostCount(sel, c.hostname) < MaxPerHost
                   THEN Append(sel, c) ELSE sel
       IN IF NumGt(Num(Len(sel2)), [count EXCEPT !.v = @ * OverFetch])
          THEN sel2
          ELSE Walk_LateBreak(cands, k + 1, sel2, count)

RECURSIVE Walk(_, _, _, _)
\* The greedy walk over the sorted candidates from position k on: admit a
\* candidate whose hostname has fewer than 2 admitted, break at 2 x count.
Walk(cands, k, sel, count) ==
  IF k > Len(cands) THEN sel
  ELSE LET c == cands[k]
           sel2 == IF HostCount(sel, c.hostname) < MaxPerHost
                   THEN Append(sel, c) ELSE sel
       IN IF NumGe(Num(Len(sel2)), [count EXCEPT !.v = @ * OverFetch])
          THEN sel2
          ELSE Walk(cands, k + 1, sel2, count)

Select(cands, count) == Walk(cands, 1, <<>>, count)

\* ------------------------------------------------------------- structurer

\* A call that either returns a value or throws.
Return(v) == [thrown |-> FALSE, value |-> v]
Throw == [thrown |-> TRUE, value |-> Undefined]

\* toParagraphs(text) of the generator: "" for an empty text.
toParagraphs(t) == IF t = Empty THEN Empty ELSE <<"paras", t>>

\* formatContentForReadability(text): "" for an empty or missing text;
\* (text || "").replace throws a TypeError for a truthy non-string.
formatContentForReadability(t) ==
  IF t = NonString THEN Throw
  ELSE IF ~Truthy(t) THEN Return(Empty)
  ELSE Return(<<"fmt", t>>)

\* buildStructuredArticle(title, excerpt, body, sources): the Excerpt section
\* holds the first 13 sentences of the body, or the excerpt argument when the
\* body has no sentence; (x || "").trim() throws for a truthy non-string.
buildStructuredArticle(title, excerpt, body, sources) ==
  IF title = NonString THEN Throw
  ELSE IF body = Empty /\ excerpt = NonString THEN Throw
  ELSE Return(<<"doc", Or(title, Empty),
                IF body # Empty THEN <<"summary13", body>> ELSE Or(excerpt, Empty),
                body, sources>>)

\* ------------------------------------------- the structurer, word by word

\* A body text is a sequence of words; a word is TRUE when it ends with one of
\* . ! ? or a Thai terminator and is followed by white space.  Word k of a text
\* is written k, a sentence is the sequence of its words, and join(" ") of
\* sentences is the sequence of all their words.
MaxWords == 11

\* arr.slice(a, b) for 0 <= a, b.
Slice(arr, a, b) ==
  LET lo == IF a > Len(arr) THEN Len(arr) ELSE a
      hi == IF b > Len(arr) THEN Len(arr) ELSE b
  IN IF lo >= hi THEN <<>> ELSE SubSeq(arr, lo + 1, hi)

\* arr.slice(-n)
SliceLast(arr, n) == Slice(arr, IF Len(arr) > n THEN Len(arr) - n ELSE 0, Len(arr))

RECURSIVE Join(_)
Join(parts) == IF parts = <<>> THEN <<>> ELSE Head(parts) \o Join(Tail(parts))

\* splitSentences(text): the text is cut after every terminator; what follows
\* the last terminator is a sentence too.
RECURSIVE SplitFrom(_, _, _)
SplitFrom(text, k, open) ==
  IF k > Len(text) THEN (IF open = <<>> THEN <<>> ELSE <<open>>)
  ELSE IF text[k] THEN <<Append(open, k)>> \o SplitFrom(text, k + 1, <<>>)
  ELSE SplitFrom(text, k + 1, Append(open, k))

splitSentences(text) == SplitFrom(text, 1, <<>>)

\* chunkSentences(sentences, per)
RECURSIVE chunkSentences(_, _)
chunkSentences(sentences, per) ==
  IF sentences = <<>> THEN <<>>
  ELSE <<Join(Slice(sentences, 0, per))>>
         \o chunkSentences(Slice(sentences, per, Len(sentences)), per)

\* buildStructuredArticle with the windows laid end to end: the summary is
\* the 13 sentences after the introduction and the key points follow it.
StructuredSections_Consecutive(title, excerpt, body, sources) ==
  LET sents == splitSentences(body)
      intro == Join(Slice(sents, 0, 3))
      summary13 == Join(Slice(sents, 3, 16))
      afterSummary == Slice(sents, 16, Len(sents))
      keyPoints == Slice(afterSummary, 0, 6)
      details == Slice(afterSummary, 6, Len(afterSummary))
      detailParas == chunkSentences(details, 2)
      lastTwo == Join(SliceLast(sents, 2))
      conclusion == IF lastTwo # <<>> THEN lastTwo ELSE intro
  IN [Title |-> Or(title, Empty),
      Excerpt |-> IF summary13 # <<>> THEN summary13 ELSE Or(excerpt, Empty),
      Introduction |-> intro,
      KeyPoints |-> keyPoints,
      Details |-> detailParas,
      Conclusion |-> conclusion,
      Sources |-> IF sources # <<>> THEN sources ELSE <<"No external sources provided.">>,
      labels |-> <<"Title", "Excerpt", "Introduction", "Main Sections">>
                   \o (IF keyPoints # <<>> THEN <<"Key Points">> ELSE <<>>)
                   \o (IF detailParas # <<>> THEN <<"Details">> ELSE <<>>)
                   \o <<"Conclusion", "Sources">>]

\* The sections of buildStructuredArticle(title, excerpt, body, sources) for a
\* body given word by word (lines 257-287): labels are the section labels
\* pushed, in their order.
StructuredSections(title, excerpt, body, sources) ==
  LET sents == splitSentences(body)
      intro == Join(Slice(sents, 0, 3))
      summary13 == Join(Slice(sents, 0, 13))
      afterIntro == Slice(sents, 3, Len(sents))
      keyPoints == Slice(afterIntro, 0, 6)
      details == Slice(afterIntro, 6, Len(afterIntro))
      detailParas == chunkSentences(details, 2)
      lastTwo == Join(SliceLast(sents, 2))
      conclusion == IF lastTwo # <<>> THEN lastTwo ELSE intro
  IN [Title |-> Or(title, Empty),
      Excerpt |-> IF summary13 # <<>> THEN summary13 ELSE Or(excerpt, Empty),
      Introduction |-> intro,
      KeyPoints |-> keyPoints,
      Details |-> detailParas,
      Conclusion |-> conclusion,
      Sources |-> IF sources # <<>> THEN sources ELSE <<"No external sources provided.">>,
      labels |-> <<"Title", "Excerpt", "Introduction", "Main Sections">>
                   \o (IF keyPoints # <<>> THEN <<"Key Points">> ELSE <<>>)
                   \o (IF detailParas # <<>> THEN <<"Details">> ELSE <<>>)
                   \o <<"Conclusion", "Sources">>]

\* ------------------------------------------------- the feed parser, in detail

\* A response body is what parseRSS looks at: which of the markers "<rss",
\* "<feed", "<?xml" it contains, and its <item>/<entry> elements.  An item is
\* whether it has a title, and the sequence of its link-bearing elements in
\* document order: <link href="v"/>, <link>v</link>, <guid isPermaLink="true">v
\* </guid> and <guid>v</guid>, each with a non-blank value v.
XmlMarkers == {"<rss", "<feed", "<?xml"}
LinkKinds == {"href", "text", "permalink", "guid"}
MaxElems == 3

\* What fetch and response.text() come to.
FetchOutcomes == {"network_error", "non_ok", "text_error", "ok"}

\* itemXml.match(regex) for the regex of one kind of element: the value of the
\* first element of the kind, "" when there is none.
FirstOf(elems, kind) ==
  LET found == {k \in 1..Len(elems) : elems[k].kind = kind}
  IN IF found = {} THEN Empty
     ELSE elems[CHOOSE k \in found : \A j \in found : k <= j].value

\* The link of an item is that of its first link-bearing element.
ExtractLink_DocumentOrder(elems) ==
  LET found == {k \in 1..Len(elems) : elems[k].kind # "guid"}
  IN IF found = {} THEN Empty
     ELSE elems[CHOOSE k \in found : \A j \in found : k <= j].value

\* The link of an item (lines 366-390).
ExtractLink(elems) ==
  LET linkHref == FirstOf(elems, "href")
      linkText == FirstOf(elems, "text")
      guidPermalink == FirstOf(elems, "permalink")
  IN IF Truthy(linkHref) THEN linkHref
     ELSE IF Truthy(linkText) THEN linkText
     ELSE guidPermalink

\* The date elements of an item, in document order: the tag is one of the
\* four of the regular expression, the text is a date that parses, a text
\* that does not, or blank; the date of element k parses to <<"date", tag, k>>.
DateTags == <<"pubDate", "published", "dc:date", "updated">>
DateTexts == {"date", "garbage", "blank"}
MaxDates == 3

\* new Date(): the current processing time.
CurrentTime == <<"now">>

\* The pubDate of an item (lines 392-407): the one regular expression
\* alternates over the four tags, so match() gives the first date element of
\* the item, whichever its tag; a blank or unparseable text gives new Date().
ExtractDate(dates) ==
  IF dates = <<>> THEN CurrentTime
  ELSE LET dateMatch == dates[1]
       IN IF dateMatch.text = "date" THEN <<"date", dateMatch.tag, 1>>
          ELSE CurrentTime

\* The items pushed for the <item>/<entry> elements of a body (lines 355-425).
RECURSIVE ParseItems(_)
ParseItems(xmlItems) ==
  IF xmlItems = <<>> THEN <<>>
  ELSE LET item == Head(xmlItems)
           title == IF item.titled THEN <<"title", 0>> ELSE Empty
           link == ExtractLink(item.elems)
           pubDate == ExtractDate(item.dates)
       IN (IF Truthy(title) /\ Truthy(link)
           THEN <<[title |-> title, link |-> link, pubDate |-> pubDate]>> ELSE <<>>)
          \o ParseItems(Tail(xmlItems))

\* parseRSS(url) without the check of the markers.
FeedParser_NoMarkerCheck(fetch, body) ==
  IF fetch # "ok" THEN Return(<<>>) ELSE Return(ParseItems(body.items))

\* parseRSS(url) for what the fetch comes to (lines 311-434): the catch turns
\* every exception into [].
FeedParser(fetch, body) ==
  IF fetch \in {"network_error", "text_error"} THEN Return(<<>>)
  ELSE IF fetch = "non_ok" THEN Return(<<>>)
  ELSE IF body.markers \cap XmlMarkers = {} THEN Return(<<>>)
  ELSE Return(ParseItems(body.items))

\* ------------------------------------------------------------------ slugify

\* A title is a sequence of characters, one of each class that slugify tells
\* apart: a lowercase and an uppercase letter, a Thai letter, white space,
\* hyphen, underscore, a quote and another punctuation mark.
SlugChars == {"a", "B", "th", " ", "-", "_", "'", "!"}
SlugLimit == 96

\* The classes of the regular expressions: \s, the quotes, -, [\s_], and
\* what is outside [\w฀-๿\s-].
Spaces == {" "}
Quotes == {"'"}
Hyphens == {"-"}
SpacesAndUnderscores == {" ", "_"}
NotKept == {"'", "!"}

toLowerCase(str) == [k \in 1..Len(str) |-> IF str[k] = "B" THEN "b" ELSE str[k]]

\* The string without its leading characters of a class.
StripLeft(str, class) ==
  LET others == {k \in 1..Len(str) : str[k] \notin class}
  IN IF others = {} THEN <<>>
     ELSE SubSeq(str, CHOOSE k \in others : \A j \in others : k <= j, Len(str))

\* The string without its trailing characters of a class.
StripRight(str, class) ==
  LET others == {k \in 1..Len(str) : str[k] \notin class}
  IN IF others = {} THEN <<>>
     ELSE SubSeq(str, 1, CHOOSE k \in others : \A j \in others : k >= j)

\* str.trim()
Trim(str) == StripRight(StripLeft(str, Spaces), Spaces)

\* str.replace(/[class]+/g, c): every run of the class becomes one c (the
\* first character of a run is replaced, the others are dropped).
ReplaceRuns(str, class, c) ==
  LET Dropped == "<dropped>"
      marked == [k \in 1..Len(str) |->
                   IF str[k] \notin class THEN str[k]
                   ELSE IF k > 1 /\ str[k - 1] \in class THEN Dropped ELSE c]
      Keep(x) == x # Dropped
  IN SelectSeq(marked, Keep)

\* str.replace(/[class]/g, "")
Remove(str, class) == LET Keep(c) == c \notin class IN SelectSeq(str, Keep)

\* slugify(text) with the cut made before the hyphens at the ends are removed.
slugify_CutFirst(text) ==
  LET cleaned == Remove(Remove(Trim(toLowerCase(text)), Quotes), NotKept)
      hyphened == ReplaceRuns(ReplaceRuns(cleaned, SpacesAndUnderscores, "-"), Hyphens, "-")
  IN StripRight(StripLeft(Slice(hyphened, 0, SlugLimit), Hyphens), Hyphens)

\* slugify(text)
slugify(text) ==
  LET cleaned == Remove(Remove(Trim(toLowerCase(text)), Quotes), NotKept)
      hyphened == ReplaceRuns(ReplaceRuns(cleaned, SpacesAndUnderscores, "-"), Hyphens, "-")
  IN Slice(StripRight(StripLeft(hyphened, Hyphens), Hyphens), 0, SlugLimit)

\* ------------------------------------------------------------- AI transform

AIFieldKinds == {"str", "none", "nonstring"}

AIReply(kind, sig, title, excerpt, content) ==
  [kind |-> kind, sig |-> sig, title |-> title, excerpt |-> excerpt,
   content |-> content]

\* What the AI call can come back with: an exception of the SDK (sig: its
\* message matches the quota signature), a reply that is not JSON (the
\* SyntaxError's message quotes the reply, so it can match too), the JSON
\* value null, or a JSON object whose title/excerpt/content are each a
\* string, missing, or a truthy non-string.
AIReplies ==
  [kind : {"throw", "malformed"}, sig : BOOLEAN,
   title : {"none"}, excerpt : {"none"}, content : {"none"}]
  \cup [kind : {"null"}, sig : {FALSE},
        title : {"none"}, excerpt : {"none"}, content : {"none"}]
  \cup [kind : {"json"}, sig : {FALSE},
        title : AIFieldKinds, excerpt : AIFieldKinds, content : AIFieldKinds]

AIField(kind, name, id) ==
  IF kind = "str" THEN <<"ai", name, id>>
  ELSE IF kind = "nonstring" THEN NonString ELSE Undefined

\* What is remembered of how an article came about (not part of the response):
\* aiErr is "none", "quota" or "other"; calls are the provider calls made.
NoTrace == [gate |-> "none", aiErr |-> "none", calls |-> {}, got |-> {}]

\* The NormalizedNews object (Category, Cover and coverNote left out); via
\* names the branch that built it.
Article(idx, title, excerpt, content, link, isTranslated, via) ==
  [idx |-> idx, Title |-> title, Slug |-> <<"slug", title>>, Excerpt |-> excerpt,
   Sources |-> <<link>>, Content |-> content, isTranslated |-> isTranslated,
   via |-> via, trace |-> NoTrace]

NoArticle == Article(0, Empty, Empty, Empty, Empty, FALSE, "none")

\* A step of the inner try block: ok with the article fields, or an exception
\* for the catch (sig: its message matches the quota signature).
Caught(sig) == [ok |-> FALSE, sig |-> sig, article |-> NoArticle]

\* The inner try block after the completion arrives (lines 586-596).
AITransform(idx, item, baseText, reply) ==
  IF reply.kind \in {"throw", "malformed"} THEN Caught(reply.sig)
  ELSE IF reply.kind = "null" THEN Caught(FALSE)
  ELSE
    LET rTitle == AIField(reply.title, "title", item.id)
        rExcerpt == AIField(reply.excerpt, "excerpt", item.id)
        rContent == AIField(reply.content, "content", item.id)
        finalTitle == Or(rTitle, item.title)
        finalExcerpt == Or(rExcerpt, Slice220(item.description))
        body == formatContentForReadability(Or(rContent, toParagraphs(baseText)))
        doc == buildStructuredArticle(finalTitle, finalExcerpt, body.value, <<item.link>>)
    IN IF body.thrown \/ doc.thrown THEN Caught(FALSE)
       ELSE [ok |-> TRUE, sig |-> FALSE,
             article |-> Article(idx, finalTitle, finalExcerpt, doc.value,
                                 item.link, TRUE, "ai")]

\* ------------------------------------------------------- circuit breaker

\* aiAvailable() without the cooldown test.
aiAvailable_NoCooldown(key, disabled, clock, lastErrorAt) == key /\ ~disabled

\* aiAvailable() without the DISABLE_AI test.
aiAvailable_IgnoresDisable(key, disabled, clock, lastErrorAt) ==
  key /\ clock - lastErrorAt > cooldownMs

\* aiAvailable() with >= in place of >.
aiAvailable_NonStrict(key, disabled, clock, lastErrorAt) ==
  /\ key
  /\ ~disabled
  /\ clock - lastErrorAt >= cooldownMs

\* aiAvailable(): key configured, AI not disabled, cooldown elapsed.
aiAvailable(key, disabled, clock, lastErrorAt) ==
  /\ key
  /\ ~disabled
  /\ clock - lastErrorAt > cooldownMs

\* flagAIError(e) without the signature test.
flagAIError_AnyFailure(sig, clock, lastErrorAt) == clock

\* flagAIError(e): the new LAST_AI_ERROR_AT.
flagAIError(sig, clock, lastErrorAt) == IF sig THEN clock ELSE lastErrorAt

\* ------------------------------------------------------ fallback providers

Fields == {"title", "excerpt", "content"}
ProviderOutcomes == {"ok", "non_ok", "empty", "throw"}

\* The upstreams, per feed item.  Everything can happen around item 1.  The
\* page of item 2 is never readable, the AI answers it with an exception or a
\* complete object, LibreTranslate is down for it and gtx up or failing.
ArticleOutcomesOf(item) ==
  IF item.id = 1 THEN {"text", "none", "throws"} ELSE {"none", "throws"}

AIRepliesOf(item) ==
  IF item.id = 1 THEN AIReplies
  ELSE {AIReply("throw", TRUE, "none", "none", "none"),
        AIReply("throw", FALSE, "none", "none", "none"),
        AIReply("json", FALSE, "str", "str", "str")}

LibreOutcomesOf(item) == IF item.id = 1 THEN ProviderOutcomes ELSE {"non_ok"}
GtxOutcomesOf(item) == IF item.id = 1 THEN ProviderOutcomes ELSE {"ok", "throw"}

\* libreTranslate(q) without its try/catch: a failed fetch rejects.
libreTranslate_NoCatch(q, outcome) ==
  IF outcome = "ok" THEN Return(<<"libre", q>>)
  ELSE IF outcome = "throw" THEN Throw ELSE Return(Undefined)

\* libreTranslate(q) of the generator: undefined on any failure.
libreTranslate(q, outcome) ==
  IF outcome = "ok" THEN Return(<<"libre", q>>) ELSE Return(Undefined)

\* gtxTranslate(q) of the generator: undefined on any failure.
gtxTranslate(q, outcome) ==
  IF outcome = "ok" THEN Return(<<"gtx", q>>) ELSE Return(Undefined)

\* One translateField(q) in flight: the provider it waits for, or done;
\* libreCalls and gtxCalls count the calls it has made of each provider.
\* viaLibre and viaGtx are its two locals.
FieldStart(q) ==
  IF ~Truthy(q) \/ TrimsToEmpty(q)
  THEN [q |-> q, stage |-> "done", value |-> Undefined, thrown |-> FALSE,
        libreCalls |-> 0, gtxCalls |-> 0, viaLibre |-> Undefined, viaGtx |-> Undefined]
  ELSE [q |-> q, stage |-> "libre", value |-> Undefined, thrown |-> FALSE,
        libreCalls |-> 1, gtxCalls |-> 0, viaLibre |-> Undefined, viaGtx |-> Undefined]

FieldDone(fs, r) == [fs EXCEPT !.stage = "done", !.value = r.value, !.thrown = r.thrown]

\* translateField calling libreTranslate a second time after an empty result.
AfterLibre_Retry(fs, r) ==
  IF r.thrown \/ Truthy(r.value) THEN FieldDone([fs EXCEPT !.viaLibre = r.value], r)
  ELSE IF fs.libreCalls < 2 THEN [fs EXCEPT !.libreCalls = @ + 1, !.viaLibre = r.value]
  ELSE [fs EXCEPT !.stage = "gtx", !.gtxCalls = @ + 1, !.viaLibre = r.value]

\* translateField calling gtxTranslate whatever libreTranslate returned.
AfterLibre_GtxAnyway(fs, r) ==
  IF r.thrown THEN FieldDone([fs EXCEPT !.viaLibre = r.value], r)
  ELSE [fs EXCEPT !.stage = "gtx", !.gtxCalls = @ + 1, !.viaLibre = r.value]

\* translateField after libreTranslate settled.
AfterLibre(fs, r) ==
  IF r.thrown \/ Truthy(r.value) THEN FieldDone([fs EXCEPT !.viaLibre = r.value], r)
  ELSE [fs EXCEPT !.stage = "gtx", !.gtxCalls = @ + 1, !.viaLibre = r.value]

\* translateField after gtxTranslate settled.
AfterGtx(fs, r) ==
  FieldDone([fs EXCEPT !.viaGtx = r.value],
            IF r.thrown \/ Truthy(r.value) THEN r ELSE Return(Undefined))

\* The three translateField calls of Promise.all.
StartFallback(item, baseText) ==
  [f \in Fields |->
     FieldStart(IF f = "title" THEN item.title
                ELSE IF f = "excerpt" THEN Slice220(baseText) ELSE baseText)]

\* The catch branch with the last resort of the else branch: the excerpt is cut
\* from baseText instead of the description.
MergeAfterFailure_ExcerptFromBase(idx, item, baseText, tTitle, tExcerpt, tContent) ==
  IF Truthy(tTitle) \/ Truthy(tExcerpt) \/ Truthy(tContent) THEN
    LET rawContent == Or(tContent, baseText)
        excerpt == Or(tExcerpt, Slice220(Or(rawContent, Empty)))
        body == formatContentForReadability(rawContent)
        doc == buildStructuredArticle(Or(tTitle, item.title), excerpt, body.value,
                                      <<item.link>>)
    IN Return(Article(idx, Or(tTitle, item.title), excerpt, doc.value,
                      item.link, TRUE, "failed"))
  ELSE
    LET excerpt == Slice220(baseText)
        body == formatContentForReadability(baseText)
        doc == buildStructuredArticle(item.title, excerpt, body.value, <<item.link>>)
    IN Return(Article(idx, item.title, excerpt, doc.value, item.link, FALSE, "failed"))

\* The catch branch after Promise.all (lines 608-631).
MergeAfterFailure(idx, item, baseText, tTitle, tExcerpt, tContent) ==
  IF Truthy(tTitle) \/ Truthy(tExcerpt) \/ Truthy(tContent) THEN
    LET rawContent == Or(tContent, baseText)
        excerpt == Or(tExcerpt, Slice220(Or(rawContent, Empty)))
        body == formatContentForReadability(rawContent)
        doc == buildStructuredArticle(Or(tTitle, item.title), excerpt, body.value,
                                      <<item.link>>)
    IN IF body.thrown \/ doc.thrown THEN Throw
       ELSE Return(Article(idx, Or(tTitle, item.title), excerpt, doc.value,
                           item.link, TRUE, "failed"))
  ELSE
    LET excerpt == Slice220(item.description)
        body == formatContentForReadability(baseText)
        doc == buildStructuredArticle(item.title, excerpt, body.value, <<item.link>>)
    IN IF body.thrown \/ doc.thrown THEN Throw
       ELSE Return(Article(idx, item.title, excerpt, doc.value, item.link, FALSE,
                           "failed"))

\* The else branch, AI not available (lines 635-660).
MergeWhenSkipped(idx, item, baseText, tTitle, tExcerpt, tContent) ==
  IF Truthy(tTitle) \/ Truthy(tExcerpt) \/ Truthy(tContent) THEN
    LET rawContent == Or(tContent, baseText)
        body == formatContentForReadability(rawContent)
        doc == buildStructuredArticle(Or(tTitle, item.title),
                                      Or(tExcerpt, Slice220(Or(rawContent, Empty))),
                                      body.value, <<item.link>>)
    IN IF body.thrown \/ doc.thrown THEN Throw
       ELSE Return(Article(idx, Or(tTitle, item.title),
                           Or(tExcerpt, Slice220(doc.value)), doc.value,
                           item.link, TRUE, "skipped"))
  ELSE
    LET raw == Or(baseText, Empty)
        excerpt == Slice220(raw)
        body == formatContentForReadability(raw)
        doc == buildStructuredArticle(item.title, excerpt, body.value, <<item.link>>)
    IN IF body.thrown \/ doc.thrown THEN Throw
       ELSE Return(Article(idx, item.title, excerpt, doc.value, item.link, FALSE,
                           "skipped"))

\* ----------------------------------------------------- translate endpoint

\* The JSON bodies posted to the translate endpoint.
Body(url, title, description, content) ==
  [url |-> url, title |-> title, description |-> description, content |-> content]

In(name) == <<"in", name>>
TranslateBodies ==
  { Body(FALSE, In("title"), In("description"), In("content")),
    Body(FALSE, In("title"), Undefined, Undefined),
    Body(FALSE, Undefined, Undefined, In("content")),
    Body(FALSE, Blank, Undefined, In("content")),
    Body(TRUE, Undefined, Undefined, Undefined),
    Body(FALSE, Undefined, Undefined, Undefined) }

\* The page fetch: it fails, or the page has a title, a description and a
\* text, or none of them.
PageOutcomes == {"fail", "page", "blank"}

\* pick([given, found on the page]).
pick(given, found) ==
  IF Truthy(given) /\ ~TrimsToEmpty(given) THEN given
  ELSE IF Truthy(found) THEN found ELSE Undefined

\* The body after the page was read (lines 42-61).
AfterPage(b, outcome) ==
  IF outcome = "fail" THEN b
  ELSE LET found(name) == IF outcome = "page" THEN <<"page", name>> ELSE Undefined
       IN [b EXCEPT !.title = pick(b.title, found("title")),
                    !.description = pick(b.description, found("description")),
                    !.content = pick(b.content, found("content"))]

\* [title, description, content].filter(Boolean).join("\n\n").slice(0, 8000)
SourceText(b) ==
  IF ~Truthy(b.title) /\ ~Truthy(b.description) /\ ~Truthy(b.content) THEN Empty
  ELSE <<"source", b.title, b.description, b.content>>

NoT == [body |-> Body(FALSE, Undefined, Undefined, Undefined),
        resultTitle |-> Empty, resultExcerpt |-> Empty, resultContent |-> Empty,
        usedAI |-> FALSE, entered |-> FALSE, aiCalls |-> 0, circuitOpen |-> FALSE,
        tr |-> [f \in Fields |->
                  FieldStart(Empty)]]

\* The locals before the AI call (lines 72-76).
TranslateLocals(b) ==
  [NoT EXCEPT !.body = b,
              !.resultTitle = Or(b.title, Empty),
              !.resultExcerpt = Or(b.description,
                                   IF Truthy(b.content) THEN Slice220(b.content) ELSE Empty),
              !.resultContent = Or(b.content, Empty),
              !.entered = TRUE]

\* The try block of the AI call (lines 97-101): caught is TRUE when it threw.
TranslateAI(loc, reply) ==
  IF reply.kind # "json" THEN [caught |-> TRUE, loc |-> loc]
  ELSE [caught |-> FALSE,
        loc |-> [loc EXCEPT
                   !.resultTitle = Or(AIField(reply.title, "title", 0), @),
                   !.resultExcerpt = Or(AIField(reply.excerpt, "excerpt", 0), @),
                   !.resultContent = Or(AIField(reply.content, "content", 0), @),
                   !.usedAI = TRUE]]

\* libreTranslate(q) of the translate endpoint: a failed fetch rejects.
T_libreTranslate(q, outcome) ==
  IF outcome = "ok" THEN Return(<<"libre", q>>)
  ELSE IF outcome = "throw" THEN Throw ELSE Return(Undefined)

\* gtxTranslate(q) of the translate endpoint: a failed fetch rejects.
T_gtxTranslate(q, outcome) ==
  IF outcome = "ok" THEN Return(<<"gtx", q>>)
  ELSE IF outcome = "throw" THEN Throw ELSE Return(Undefined)

\* translateField of the translate endpoint without its first try/catch.
T_AfterLibre_NoCatch(fs, r) ==
  IF r.thrown \/ Truthy(r.value) THEN FieldDone([fs EXCEPT !.viaLibre = r.value], r)
  ELSE [fs EXCEPT !.stage = "gtx", !.gtxCalls = @ + 1, !.viaLibre = r.value]

\* translateField of the translate endpoint after libreTranslate settled:
\* try { ... if (viaLibre) return viaLibre } catch {}
T_AfterLibre(fs, r) ==
  IF ~r.thrown /\ Truthy(r.value) THEN FieldDone([fs EXCEPT !.viaLibre = r.value], r)
  ELSE [fs EXCEPT !.stage = "gtx", !.gtxCalls = @ + 1, !.viaLibre = r.value]

\* ... after gtxTranslate settled: try { ... } catch {}; return undefined
T_AfterGtx(fs, r) ==
  FieldDone([fs EXCEPT !.viaGtx = r.value],
            IF ~r.thrown /\ Truthy(r.value) THEN r ELSE Return(Undefined))

\* The three translateField calls (lines 149-153).
T_StartFallback(b) ==
  [f \in Fields |->
     FieldStart(IF f = "title" THEN b.title
                ELSE IF f = "excerpt"
                     THEN Or(b.description,
                             IF Truthy(b.content) THEN Slice220(b.content) ELSE Undefined)
                     ELSE Or(b.content, SourceText(b)))]

\* The merge of the fallback texts (lines 155-167).
T_MergeFallback(loc, tTitle, tExcerpt, tContent) ==
  IF Truthy(tTitle) \/ Truthy(tExcerpt) \/ Truthy(tContent) THEN
    LET rTitle == IF Truthy(tTitle) THEN tTitle ELSE loc.resultTitle
        rExcerpt == IF Truthy(tExcerpt) THEN tExcerpt ELSE loc.resultExcerpt
        rContent == IF Truthy(tContent) THEN tContent ELSE loc.resultContent
    IN [loc EXCEPT
          !.resultTitle = IF ~Truthy(rTitle) /\ Truthy(rContent)
                          THEN <<"firstSentence120", rContent>> ELSE rTitle,
          !.resultExcerpt = IF ~Truthy(rExcerpt) /\ Truthy(rContent)
                            THEN <<"slice200", rContent>> ELSE rExcerpt,
          !.resultContent = rContent,
          !.usedAI = TRUE]
  ELSE loc

\* The 200 response of the translate endpoint (lines 170-176).
TranslateResult(loc) ==
  [title |-> loc.resultTitle, excerpt |-> loc.resultExcerpt,
   content |-> loc.resultContent, source |-> loc.body.url,
   isTranslated |-> loc.usedAI]

\* ------------------------------------------------------------ the response

NoResponse == [status |-> 0, error |-> "", details |-> <<>>, items |-> <<>>]
ErrorResponse(status, error) ==
  [status |-> status, error |-> error, details |-> <<>>, items |-> <<>>]
ListResponse(items) == [status |-> 200, error |-> "", details |-> <<>>, items |-> items]

\* The fallback item built from feed metadata (lines 690-703).
MetaArticle(idx, item) ==
  Article(idx, item.title, Slice220(item.description), item.description, item.link,
          FALSE, "meta")

\* The end of GET without the fallback from feed metadata.
FinalResponse_NoFallback(res, sel, cnt) ==
  IF Len(res) = 0
  THEN ErrorResponse(500, "Failed to process any articles. Please try again.")
  ELSE ListResponse(res)

\* The end of GET once the loop is over (lines 688-714).
FinalResponse(res, sel, cnt) ==
  IF Len(res) = 0 THEN
    LET part == SliceTo(sel, MathMin(cnt, Num(Len(sel))))
        fallback == [k \in 1..Len(part) |-> MetaArticle(k, part[k])]
    IN IF Len(fallback) > 0 THEN ListResponse(fallback)
       ELSE ErrorResponse(500, "Failed to process any articles. Please try again.")
  ELSE ListResponse(res)

\* The zero-candidate test, never true.
NoCandidates_Never(cands) == FALSE

\* if (candidates.length === 0): the request ends with the 503 error.
NoCandidates(cands) == Len(cands) = 0

\* Promise.any in place of Promise.allSettled: some feed fetch has settled.
AllSettled_Any(fr) == \E f \in DOMAIN fr : fr[f].status # "pending"

\* Promise.allSettled: every feed fetch has settled.
AllSettled(fr) == \A f \in DOMAIN fr : fr[f].status # "pending"

\* ------------------------------------------------------------------- state

VARIABLES
  OPENAI_API_KEY,     \* process.env.OPENAI_API_KEY is set
  DISABLE_AI,         \* process.env.DISABLE_AI === "true"
  now,                \* Date.now()
  LAST_AI_ERROR_AT,   \* the circuit breaker's timestamp
  pc,                 \* where the request in progress waits
  req,                \* the query parameters of the request
  count,              \* Number.parseInt(count parameter || "5")
  feedResults,        \* per feed: pending, or fulfilled with its items
                      \* (failed: the fetch failed or the body was not XML)
  candidates,         \* the candidate pool, sorted by recency
  selected,           \* the selector's output
  i,                  \* loop index of the candidate being processed
  results,            \* the articles built so far
  cur,                \* locals of the candidate being processed
  response,           \* the response of the finished request
  t,                  \* locals of the translate request in progress
  skips,              \* history: candidates skipped by the outer catch
  lastQuotaAt,        \* history: time of the last quota-classified AI failure
  input,              \* the argument of a function looked at on its own
  output,             \* its result
  pending             \* the AI calls in flight of requests running side by side

vars == <<OPENAI_API_KEY, DISABLE_AI, now, LAST_AI_ERROR_AT, pc, req, count,
          feedResults, candidates, selected, i, results, cur, response, t,
          skips, lastQuotaAt, input, output, pending>>

\* The variables of the specifications of single functions.
fn == <<input, output>>
NoValue == <<"none">>

\* Requests that run side by side on the one Node process.
MaxRequests == 3
Requests == 1..MaxRequests

\* A request's AI call: not started, or in flight since startedAt.  History:
\* overwrote is the timestamp its last flagAIError replaced (-1: none).
NoCall == [stage |-> "idle", startedAt |-> 0, overwrote |-> 0 - 1]
NoPending == [r \in Requests |-> NoCall]

env == <<OPENAI_API_KEY, DISABLE_AI>>

NoCur == [baseText |-> Empty, gate |-> "none", gateClosed |-> FALSE,
          sinceQuota |-> 0 - 1, aiCalls |-> 0, aiErr |-> "none",
          calls |-> {}, tr |-> [f \in Fields |-> FieldStart(Empty)]]

NoReq == [category |-> Null, region |-> Null, count |-> <<>>]

Categories == {Null, "Drama", "Sports"}
Regions == {Null, "intl", "mars"}
CountParams == { <<"a", "b", "c">>, <<"2">>, <<"3">>, <<"1", "1">> }

Init ==
  /\ OPENAI_API_KEY \in BOOLEAN
  /\ DISABLE_AI \in BOOLEAN
  /\ now = StartTime
  /\ LAST_AI_ERROR_AT = 0
  /\ pc = "idle"
  /\ req = NoReq
  /\ count = NaN
  /\ feedResults = <<>>
  /\ candidates = <<>>
  /\ selected = <<>>
  /\ i = 0
  /\ results = <<>>
  /\ cur = NoCur
  /\ response = NoResponse
  /\ t = NoT
  /\ skips = {}
  /\ lastQuotaAt = 0
  /\ input = NoValue
  /\ output = NoValue
  /\ pending = NoPending

\* Time passes.
Tick ==
  /\ now < MaxTime
  /\ now' = now + 1
  /\ UNCHANGED <<env, fn, pending, t, LAST_AI_ERROR_AT, pc, req, count, feedResults, candidates,
                 selected, i, results, cur, response, skips, lastQuotaAt>>

\* The request ends with a response.
Respond(r) ==
  /\ pc' = "done"
  /\ response' = r

\* GET up to the first await (lines 437-477): configuration and parameter
\* checks, then every feed fetch is started.
G_Start(category, region, countParam) ==
  /\ pc \in {"idle", "done", "t_done"}
  /\ req' = [category |-> category, region |-> region, count |-> countParam]
  /\ candidates' = <<>>
  /\ selected' = <<>>
  /\ i' = 0
  /\ results' = <<>>
  /\ cur' = NoCur
  /\ skips' = {}
  /\ LET cnt == parseInt(IF countParam = <<>> THEN <<"5">> ELSE countParam)
         feeds == RSS_SOURCES(region, category)
     IN IF ~OPENAI_API_KEY THEN
          /\ Respond(ErrorResponse(500, "OpenAI API key is not configured."))
          /\ count' = NaN
          /\ feedResults' = <<>>
        ELSE
          /\ count' = cnt
          /\ IF category \in {Null, ""} \/ region \in {Null, ""} THEN
               /\ Respond(ErrorResponse(400, "Missing category or region"))
               /\ feedResults' = <<>>
             ELSE IF NumLt(cnt, Num(MinCount)) \/ NumGt(cnt, Num(MaxCount)) THEN
               /\ Respond(ErrorResponse(400, "Count must be between 3 and 10"))
               /\ feedResults' = <<>>
             ELSE IF Len(feeds) = 0 THEN
               /\ Respond(ErrorResponse(404, "No feeds found for this category/region"))
               /\ feedResults' = <<>>
             ELSE
               /\ pc' = "g_feeds"
               /\ response' = NoResponse
               /\ feedResults' = [f \in 1..Len(feeds) |->
                                    [status |-> "pending", value |-> <<>>, failed |-> FALSE]]
  /\ t' = NoT
  /\ UNCHANGED <<env, fn, pending, now, LAST_AI_ERROR_AT, lastQuotaAt>>

\* One parseRSS(feed.url) settles.
G_FeedSettle(f, outcome) ==
  /\ pc = "g_feeds"
  /\ f \in DOMAIN feedResults
  /\ feedResults[f].status = "pending"
  /\ feedResults' = [feedResults EXCEPT
                       ![f] = [status |-> "fulfilled", value |-> parseRSS(f, outcome),
                               failed |-> outcome \notin {"ok", "ok_empty"}]]
  /\ UNCHANGED <<env, fn, pending, t, now, LAST_AI_ERROR_AT, pc, req, count, candidates, selected,
                 i, results, cur, response, skips, lastQuotaAt>>

\* The head of a loop that goes on into the over-fetched candidates until
\* count articles are built.
Continue_UntilCount(k, res, sel) ==
  /\ i' = k
  /\ results' = res
  /\ cur' = NoCur
  /\ IF NumLt(Num(Len(res)), count) /\ k < Len(sel)
     THEN /\ pc' = "g_article"
          /\ response' = NoResponse
     ELSE Respond(FinalResponse(res, sel, count))

\* The head of the loop over selected (line 545), reached with index k and the
\* articles res: either the next candidate's article fetch is started, or the
\* loop is over and the response is sent.
Continue(k, res, sel) ==
  /\ i' = k
  /\ results' = res
  /\ cur' = NoCur
  /\ IF NumLt(Num(k), MathMin(count, Num(Len(sel))))
     THEN /\ pc' = "g_article"
          /\ response' = NoResponse
     ELSE Respond(FinalResponse(res, sel, count))

\* Promise.allSettled resolved: collect, sort, select (lines 479-545).
G_Collect ==
  /\ pc = "g_feeds"
  /\ AllSettled(feedResults)
  /\ LET cands == CollectCandidates(feedResults)
         successfulFeeds ==
           Cardinality({f \in DOMAIN feedResults : Len(feedResults[f].value) > 0})
     IN IF NoCandidates(cands) THEN
          /\ Respond([ErrorResponse(503, "Unable to fetch articles from RSS feeds.")
                        EXCEPT !.details = <<Len(feedResults), successfulFeeds>>])
          /\ UNCHANGED <<candidates, selected, i, results, cur>>
        ELSE
          /\ candidates' = SortByRecency(cands)
          /\ selected' = Select(SortByRecency(cands), count)
          /\ Continue(0, <<>>, Select(SortByRecency(cands), count))
  /\ UNCHANGED <<env, fn, pending, t, now, LAST_AI_ERROR_AT, req, count, feedResults, skips,
                 lastQuotaAt>>

\* The outer catch (lines 682-685): candidate k is skipped, the loop goes on.
Skip(k, origin) ==
  /\ skips' = skips \cup {[idx |-> k, origin |-> origin]}
  /\ Continue(k, results, selected)

\* The article is built: results.push(news), the loop goes on (lines 663-681).
Push(k, art, trace) ==
  /\ skips' = skips
  /\ Continue(k, Append(results, [art EXCEPT !.trace = trace]), selected)

\* fetchArticleText settled (lines 563-566, 633-639): baseText, then the
\* check of the circuit; the AI call or the three fallback calls are started.
\* "throws" stands for a runtime error in the part of the try block that
\* precedes the translation.
G_ArticleReply(outcome) ==
  /\ pc = "g_article"
  /\ outcome \in ArticleOutcomesOf(selected[i + 1])
  /\ LET item == selected[i + 1]
         articleText == IF outcome = "text" THEN <<"article", item.id>> ELSE Empty
         baseText == Or(articleText, item.description)
         gated == [NoCur EXCEPT
                     !.baseText = baseText,
                     !.gateClosed = (now - LAST_AI_ERROR_AT > cooldownMs),
                     !.sinceQuota = IF lastQuotaAt = 0 THEN 0 - 1
                                    ELSE IF now - lastQuotaAt > cooldownMs + 2
                                         THEN cooldownMs + 2 ELSE now - lastQuotaAt]
     IN IF outcome = "throws" THEN Skip(i + 1, "extract")
        ELSE
          /\ i' = i
          /\ results' = results
          /\ response' = response
          /\ skips' = skips
          /\ IF aiAvailable(OPENAI_API_KEY, DISABLE_AI, now, LAST_AI_ERROR_AT)
             THEN /\ pc' = "g_ai"
                  /\ cur' = [gated EXCEPT !.gate = "call", !.aiCalls = 1]
             ELSE /\ pc' = "g_fallback"
                  /\ cur' = [gated EXCEPT !.gate = "skip",
                                          !.tr = StartFallback(item, baseText)]
  /\ UNCHANGED <<env, fn, pending, t, now, LAST_AI_ERROR_AT, req, count, feedResults, candidates,
                 selected, lastQuotaAt>>

TraceOf(c, got) == [gate |-> c.gate, aiErr |-> c.aiErr, calls |-> c.calls, got |-> got]

\* The completion settled (lines 586-607): the article, or the catch branch
\* records the failure and starts the three fallback calls.
G_AIReply(reply) ==
  /\ pc = "g_ai"
  /\ reply \in AIRepliesOf(selected[i + 1])
  /\ LET item == selected[i + 1]
         r == AITransform(i + 1, item, cur.baseText, reply)
     IN IF r.ok THEN
          /\ Push(i + 1, r.article, TraceOf(cur, {}))
          /\ UNCHANGED <<LAST_AI_ERROR_AT, lastQuotaAt>>
        ELSE
          /\ LAST_AI_ERROR_AT' = flagAIError(r.sig, now, LAST_AI_ERROR_AT)
          /\ lastQuotaAt' = IF r.sig THEN now ELSE lastQuotaAt
          /\ pc' = "g_fallback"
          /\ cur' = [cur EXCEPT !.aiErr = IF r.sig THEN "quota" ELSE "other",
                                !.tr = StartFallback(item, cur.baseText)]
          /\ UNCHANGED <<i, results, response, skips>>
  /\ UNCHANGED <<env, fn, pending, t, now, req, count, feedResults, candidates, selected>>

\* libreTranslate of one field settled.
G_LibreReply(f, outcome) ==
  /\ pc = "g_fallback"
  /\ cur.tr[f].stage = "libre"
  /\ outcome \in LibreOutcomesOf(selected[i + 1])
  /\ cur' = [cur EXCEPT
               !.tr[f] = AfterLibre(@, libreTranslate(@.q, outcome)),
               !.calls = @ \cup {<<f, "libre">>}]
  /\ UNCHANGED <<env, fn, pending, t, now, LAST_AI_ERROR_AT, pc, req, count, feedResults, candidates,
                 selected, i, results, response, skips, lastQuotaAt>>

\* gtxTranslate of one field settled.
G_GtxReply(f, outcome) ==
  /\ pc = "g_fallback"
  /\ cur.tr[f].stage = "gtx"
  /\ outcome \in GtxOutcomesOf(selected[i + 1])
  /\ cur' = [cur EXCEPT
               !.tr[f] = AfterGtx(@, gtxTranslate(@.q, outcome)),
               !.calls = @ \cup {<<f, "gtx">>}]
  /\ UNCHANGED <<env, fn, pending, t, now, LAST_AI_ERROR_AT, pc, req, count, feedResults, candidates,
                 selected, i, results, response, skips, lastQuotaAt>>

\* Promise.all of the three translateField calls settled: merge and push; a
\* rejection or an exception of the merge goes to the outer catch.
G_Merge ==
  /\ pc = "g_fallback"
  /\ \A f \in Fields : cur.tr[f].stage = "done"
  /\ LET item == selected[i + 1]
         tTitle == cur.tr["title"].value
         tExcerpt == cur.tr["excerpt"].value
         tContent == cur.tr["content"].value
         m == IF cur.gate = "call"
              THEN MergeAfterFailure(i + 1, item, cur.baseText, tTitle, tExcerpt, tContent)
              ELSE MergeWhenSkipped(i + 1, item, cur.baseText, tTitle, tExcerpt, tContent)
     IN IF (\E f \in Fields : cur.tr[f].thrown) \/ m.thrown
        THEN Skip(i + 1, "pipeline")
        ELSE Push(i + 1, m.value,
                  TraceOf(cur, {f \in Fields : Truthy(cur.tr[f].value)}))
  /\ UNCHANGED <<env, fn, pending, t, now, LAST_AI_ERROR_AT, req, count, feedResults, candidates,
                 selected, lastQuotaAt>>

\* The generator's variables while a translate request runs.
GeneratorIdle ==
  /\ req' = NoReq
  /\ count' = NaN
  /\ feedResults' = <<>>
  /\ candidates' = <<>>
  /\ selected' = <<>>
  /\ i' = 0
  /\ results' = <<>>
  /\ cur' = NoCur
  /\ skips' = {}

GeneratorUnchanged ==
  UNCHANGED <<req, count, feedResults, candidates, selected, i, results, cur, skips>>

\* The translate request ends with a response.
T_Respond(r) ==
  /\ pc' = "t_done"
  /\ response' = r

\* POST from the text check to the first await after it (lines 67-105, 148-153):
\* the AI call is started when a key is configured, else the three fallback
\* calls are.
T_Enter(b) ==
  IF SourceText(b) = Empty THEN
    /\ T_Respond(ErrorResponse(422, "Could not extract any text to translate."))
    /\ t' = [NoT EXCEPT !.body = b]
  ELSE IF OPENAI_API_KEY THEN
    /\ pc' = "t_ai"
    /\ response' = NoResponse
    /\ t' = [TranslateLocals(b) EXCEPT
                !.aiCalls = 1,
                !.circuitOpen = ~(now - LAST_AI_ERROR_AT > cooldownMs)]
  ELSE
    /\ pc' = "t_fallback"
    /\ response' = NoResponse
    /\ t' = [TranslateLocals(b) EXCEPT !.tr = T_StartFallback(b)]

\* POST up to its first await (lines 18-41).
T_Start(b) ==
  /\ pc \in {"idle", "done", "t_done"}
  /\ GeneratorIdle
  /\ IF ~b.url /\ ~Truthy(b.title) /\ ~Truthy(b.content) /\ ~Truthy(b.description) THEN
       /\ T_Respond(ErrorResponse(400, "Provide either url or some text (title/description/content)."))
       /\ t' = [NoT EXCEPT !.body = b]
     ELSE IF b.url THEN
       /\ pc' = "t_page"
       /\ response' = NoResponse
       /\ t' = [NoT EXCEPT !.body = b]
     ELSE T_Enter(b)
  /\ UNCHANGED <<env, fn, pending, now, LAST_AI_ERROR_AT, lastQuotaAt>>

\* The fetch of the page settled (lines 42-65).
T_PageReply(outcome) ==
  /\ pc = "t_page"
  /\ T_Enter(AfterPage(t.body, outcome))
  /\ GeneratorUnchanged
  /\ UNCHANGED <<env, fn, pending, now, LAST_AI_ERROR_AT, lastQuotaAt>>

\* The completion settled (lines 97-105, 148-153, 170-176): the response, or
\* the catch swallows the failure and the three fallback calls are started.
T_AIReply(reply) ==
  /\ pc = "t_ai"
  /\ LET r == TranslateAI(t, reply)
     IN IF r.caught THEN
          /\ pc' = "t_fallback"
          /\ response' = response
          /\ t' = [t EXCEPT !.tr = T_StartFallback(t.body)]
        ELSE
          /\ T_Respond(ListResponse(<<TranslateResult(r.loc)>>))
          /\ t' = r.loc
  /\ GeneratorUnchanged
  /\ UNCHANGED <<env, fn, pending, now, LAST_AI_ERROR_AT, lastQuotaAt>>

\* libreTranslate of one field settled.
T_LibreReply(f, outcome) ==
  /\ pc = "t_fallback"
  /\ t.tr[f].stage = "libre"
  /\ t' = [t EXCEPT !.tr[f] = T_AfterLibre(@, T_libreTranslate(@.q, outcome))]
  /\ GeneratorUnchanged
  /\ UNCHANGED <<env, fn, pending, now, LAST_AI_ERROR_AT, pc, response, lastQuotaAt>>

\* gtxTranslate of one field settled.
T_GtxReply(f, outcome) ==
  /\ pc = "t_fallback"
  /\ t.tr[f].stage = "gtx"
  /\ t' = [t EXCEPT !.tr[f] = T_AfterGtx(@, T_gtxTranslate(@.q, outcome))]
  /\ GeneratorUnchanged
  /\ UNCHANGED <<env, fn, pending, now, LAST_AI_ERROR_AT, pc, response, lastQuotaAt>>

\* Promise.all settled: merge and respond (lines 149-176); a rejection goes to
\* the catch of POST (lines 177-180).
T_Merge ==
  /\ pc = "t_fallback"
  /\ \A f \in Fields : t.tr[f].stage = "done"
  /\ IF \E f \in Fields : t.tr[f].thrown THEN
       /\ T_Respond(ErrorResponse(500, "Internal server error"))
       /\ t' = t
     ELSE
       LET loc == T_MergeFallback(t, t.tr["title"].value, t.tr["excerpt"].value,
                                  t.tr["content"].value)
       IN /\ T_Respond(ListResponse(<<TranslateResult(loc)>>))
          /\ t' = loc
  /\ GeneratorUnchanged
  /\ UNCHANGED <<env, fn, pending, now, LAST_AI_ERROR_AT, lastQuotaAt>>

Next ==
  \/ Tick
  \/ \E c \in Categories, r \in Regions, n \in CountParams : G_Start(c, r, n)
  \/ \E f \in 1..3, o \in FeedOutcomes : G_FeedSettle(f, o)
  \/ G_Collect
  \/ \E o \in {"text", "none", "throws"} : G_ArticleReply(o)
  \/ \E r \in AIReplies : G_AIReply(r)
  \/ \E f \in Fields, o \in ProviderOutcomes : G_LibreReply(f, o)
  \/ \E f \in Fields, o \in ProviderOutcomes : G_GtxReply(f, o)
  \/ G_Merge
  \/ \E b \in TranslateBodies : T_Start(b)
  \/ \E o \in PageOutcomes : T_PageReply(o)
  \/ \E r \in AIReplies : T_AIReply(r)
  \/ \E f \in Fields, o \in ProviderOutcomes : T_LibreReply(f, o)
  \/ \E f \in Fields, o \in ProviderOutcomes : T_GtxReply(f, o)
  \/ T_Merge

Spec == Init /\ [][Next]_vars

\* --------------------------------------------- one request, with its timeouts

\* One generator request with the key configured.
LiveInit == Init /\ OPENAI_API_KEY

G_FeedSettles == \E f \in 1..3, o \in FeedOutcomes : G_FeedSettle(f, o)
G_ArticleReplies == \E o \in {"text", "none", "throws"} : G_ArticleReply(o)
G_AIReplies == \E r \in AIReplies : G_AIReply(r)
G_LibreReplies == \E f \in Fields, o \in ProviderOutcomes : G_LibreReply(f, o)
G_GtxReplies == \E f \in Fields, o \in ProviderOutcomes : G_GtxReply(f, o)

LiveNext ==
  \/ pc = "idle" /\ G_Start("Drama", "intl", <<"3">>)
  \/ G_FeedSettles
  \/ G_Collect
  \/ G_ArticleReplies
  \/ G_AIReplies
  \/ G_LibreReplies
  \/ G_GtxReplies
  \/ G_Merge

\* What settles for sure: a fetch that carries AbortSignal.timeout settles when
\* the response or the timeout comes (lines 146, 161, 297, 321), and the steps
\* of the handler itself run when their promises have settled.  The call
\* openai.chat.completions.create (lines 569-584) carries no timeout and no
\* signal: nothing in the program makes it settle.
LiveFairness ==
  /\ WF_vars(pc = "idle" /\ G_Start("Drama", "intl", <<"3">>))
  /\ WF_vars(G_FeedSettles)
  /\ WF_vars(G_Collect)
  /\ WF_vars(G_ArticleReplies)
  /\ WF_vars(G_LibreReplies)
  /\ WF_vars(G_GtxReplies)
  /\ WF_vars(G_Merge)

LiveSpec == LiveInit /\ [][LiveNext]_vars /\ LiveFairness

\* ------------------------------------------- the selector on its own inputs

\* Candidate pools of up to one more item than the cap of the smallest count,
\* over one more host than fills that cap, with two publication times.
MaxCands == OverFetch * MinCount + 1
SelHosts == 1..(MinCount + 1)
SelDates == {1, 2}
\* The counts tried are MinCount .. MinCount + SelCountSpread.
SelCountSpread == 1

SelInit ==
  /\ OPENAI_API_KEY = TRUE
  /\ DISABLE_AI = FALSE
  /\ now = StartTime
  /\ LAST_AI_ERROR_AT = 0
  /\ pc = "sel_input"
  /\ req = NoReq
  /\ count = NaN
  /\ feedResults = <<>>
  /\ candidates = <<>>
  /\ selected = <<>>
  /\ i = 0
  /\ results = <<>>
  /\ cur = NoCur
  /\ response = NoResponse
  /\ t = NoT
  /\ skips = {}
  /\ lastQuotaAt = 0
  /\ input = NoValue
  /\ output = NoValue
  /\ pending = NoPending

\* One more candidate is collected (line 496); id is its place in the order
\* of encounter.  Hosts are numbered in the order of their first item.
Sel_Collect(h, d) ==
  /\ pc = "sel_input"
  /\ Len(candidates) < MaxCands
  /\ \A g \in SelHosts : g < h => \E k \in 1..Len(candidates) : candidates[k].hostname = g
  /\ candidates' = Append(candidates,
        [id |-> Len(candidates) + 1, title |-> <<"title", Len(candidates) + 1>>,
         link |-> <<"url", h, Len(candidates) + 1>>, pubDate |-> d, hostname |-> h,
         description |-> Empty])
  /\ UNCHANGED <<env, fn, pending, t, now, LAST_AI_ERROR_AT, pc, req, count, feedResults, selected,
                 i, results, cur, response, skips, lastQuotaAt>>

\* The sort and the walk for a count n (lines 524-539).
Sel_Select(n) ==
  /\ pc = "sel_input"
  /\ Len(candidates) > 0
  /\ count' = Num(n)
  /\ candidates' = SortByRecency(candidates)
  /\ selected' = Select(SortByRecency(candidates), Num(n))
  /\ pc' = "sel_done"
  /\ UNCHANGED <<env, fn, pending, t, now, LAST_AI_ERROR_AT, req, feedResults, i, results, cur,
                 response, skips, lastQuotaAt>>

SelNext ==
  \/ \E h \in SelHosts, d \in SelDates : Sel_Collect(h, d)
  \/ \E n \in MinCount..(MinCount + SelCountSpread) : Sel_Select(n)

SelSpec == SelInit /\ [][SelNext]_vars

\* ------------------------------------- the loop over an over-fetched selection

\* The loop of one request from its first candidate on, for feeds that gave
\* up to MaxSelected candidates on hosts of two items each: with count = 3 the
\* selector keeps up to 6 of them and the loop is to visit the first 3.
MaxSelected == 5

LoopEntry(k) ==
  Entry(k + 1, <<"title", k + 1>>, <<"url", (k + 1) \div 2, k + 1>>,
        MaxSelected + 1 - k, <<"desc", k + 1>>)

LoopFeed(n) == [k \in 1..n |-> LoopEntry(k)]

LoopInit ==
  /\ OPENAI_API_KEY \in BOOLEAN
  /\ DISABLE_AI = FALSE
  /\ now = StartTime
  /\ LAST_AI_ERROR_AT = 0
  /\ pc = "g_article"
  /\ req = [region |-> "intl", category |-> "Drama", count |-> <<"3">>]
  /\ count = Num(MinCount)
  /\ \E n \in 1..MaxSelected :
       /\ feedResults = <<[status |-> "fulfilled", value |-> LoopFeed(n), failed |-> FALSE]>>
       /\ candidates = SortByRecency(CollectCandidates(feedResults))
       /\ selected = Select(candidates, count)
  /\ i = 0
  /\ results = <<>>
  /\ cur = NoCur
  /\ response = NoResponse
  /\ t = NoT
  /\ skips = {}
  /\ lastQuotaAt = 0
  /\ input = NoValue
  /\ output = NoValue
  /\ pending = NoPending

LoopNext ==
  \/ G_ArticleReplies
  \/ G_AIReplies
  \/ G_LibreReplies
  \/ G_GtxReplies
  \/ G_Merge

LoopSpec == LoopInit /\ [][LoopNext]_vars

\* ------------------------------------------- requests running side by side

\* The handlers of several requests interleave at their awaits; between two
\* awaits a handler runs alone.  Of each request only its AI calls are kept:
\* the check of the circuit that starts one, and the reply that ends it.
RaceInit ==
  /\ OPENAI_API_KEY = TRUE
  /\ DISABLE_AI = FALSE
  /\ now = StartTime
  /\ LAST_AI_ERROR_AT = 0
  /\ pc = "race"
  /\ req = NoReq
  /\ count = NaN
  /\ feedResults = <<>>
  /\ candidates = <<>>
  /\ selected = <<>>
  /\ i = 0
  /\ results = <<>>
  /\ cur = NoCur
  /\ response = NoResponse
  /\ t = NoT
  /\ skips = {}
  /\ lastQuotaAt = 0
  /\ input = NoValue
  /\ output = NoValue
  /\ pending = NoPending

RaceUnchanged ==
  UNCHANGED <<env, fn, pc, req, count, feedResults, candidates, selected, i, results,
              cur, response, t, skips>>

\* The time flagAIError writes, as of the call started then.
FlagTime_AtCallStart(r) == pending[r].startedAt

\* The time flagAIError writes: Date.now() read in the catch (line 184).
FlagTime(r) == now

\* Request r passes the check of the circuit and starts its AI call (line 566).
R_Gate(r) ==
  /\ pc = "race"
  /\ pending[r].stage = "idle"
  /\ aiAvailable(OPENAI_API_KEY, DISABLE_AI, now, LAST_AI_ERROR_AT)
  /\ pending' = [pending EXCEPT ![r] = [NoCall EXCEPT !.stage = "ai", !.startedAt = now]]
  /\ UNCHANGED <<now, LAST_AI_ERROR_AT, lastQuotaAt>>
  /\ RaceUnchanged

RaceReplies == {"ok", "quota", "other"}

\* The AI call of request r settles (lines 586-601): on a failure the catch
\* calls flagAIError.
R_AIReply(r, reply) ==
  /\ pc = "race"
  /\ pending[r].stage = "ai"
  /\ reply \in RaceReplies
  /\ LAST_AI_ERROR_AT' =
       IF reply = "ok" THEN LAST_AI_ERROR_AT
       ELSE flagAIError(reply = "quota", FlagTime(r), LAST_AI_ERROR_AT)
  /\ lastQuotaAt' = IF reply = "quota" THEN now ELSE lastQuotaAt
  /\ pending' = [pending EXCEPT
                   ![r].stage = "idle",
                   ![r].overwrote = IF reply = "quota" THEN LAST_AI_ERROR_AT ELSE 0 - 1]
  /\ UNCHANGED now
  /\ RaceUnchanged

RaceNext ==
  \/ Tick
  \/ \E r \in Requests : R_Gate(r)
  \/ \E r \in Requests, reply \in RaceReplies : R_AIReply(r, reply)

RaceSpec == RaceInit /\ [][RaceNext]_vars

\* ------------------------------------------------ functions on their own

\* Every text of up to MaxWords words, and the longer texts of one-word
\* sentences, up to MaxSentences of them.
MaxSentences == 24
Texts ==
  UNION {[1..n -> BOOLEAN] : n \in 0..MaxWords}
  \cup {[k \in 1..n |-> TRUE] : n \in (MaxWords + 1)..MaxSentences}

StructureInputs ==
  [fn : {"structure"}, title : {In("title")}, excerpt : {Empty, In("excerpt")},
   body : Texts, sources : {<<>>, <<In("link")>>}]

\* Titles: a run of letters, none or about as long as the limit of a slug,
\* followed by up to MaxTail characters of any class.
MaxTail == 3
Tails == UNION {[1..n -> SlugChars] : n \in 0..MaxTail}
Pads == {0, SlugLimit - 2, SlugLimit - 1, SlugLimit}
Title(pad, tail) == [k \in 1..pad |-> "a"] \o tail

SlugInputs == [fn : {"slugify"}, pad : Pads, tail : Tails]

\* Items of up to MaxElems link-bearing elements; the value of an element
\* names its kind and its place.
ElemSeqs ==
  UNION {[1..n -> LinkKinds] : n \in 0..MaxElems}
DateSeqs ==
  UNION {[1..n -> [tag : {DateTags[k] : k \in 1..4}, text : DateTexts]] : n \in 0..MaxDates}
XmlItem(titled, kinds, dates) ==
  [titled |-> titled,
   elems |-> [k \in 1..Len(kinds) |-> [kind |-> kinds[k], value |-> <<"url", kinds[k], k>>]],
   dates |-> dates]

\* Bodies of one item: every fetch outcome, marker set and sequence of links
\* with one date, and every sequence of dates in a feed that is read.
ParseInputs ==
  {[fn |-> "parseRSS", fetch |-> f,
    body |-> [markers |-> m,
              items |-> <<XmlItem(ti, ks, <<[tag |-> "pubDate", text |-> "date"]>>)>>]] :
     f \in FetchOutcomes, m \in SUBSET XmlMarkers, ti \in BOOLEAN, ks \in ElemSeqs}
  \cup
  {[fn |-> "parseRSS", fetch |-> "ok",
    body |-> [markers |-> {"<rss"}, items |-> <<XmlItem(TRUE, <<"text">>, ds)>>]] :
     ds \in DateSeqs}

FnInputs == StructureInputs \cup SlugInputs \cup ParseInputs

FnInit ==
  /\ OPENAI_API_KEY = TRUE
  /\ DISABLE_AI = FALSE
  /\ now = StartTime
  /\ LAST_AI_ERROR_AT = 0
  /\ pc = "fn_input"
  /\ req = NoReq
  /\ count = NaN
  /\ feedResults = <<>>
  /\ candidates = <<>>
  /\ selected = <<>>
  /\ i = 0
  /\ results = <<>>
  /\ cur = NoCur
  /\ response = NoResponse
  /\ t = NoT
  /\ skips = {}
  /\ lastQuotaAt = 0
  /\ input \in FnInputs
  /\ output = NoValue
  /\ pending = NoPending

FnUnchanged ==
  UNCHANGED <<env, now, LAST_AI_ERROR_AT, req, count, feedResults, candidates,
              selected, i, results, cur, response, t, skips, lastQuotaAt, input,
              pending>>

\* buildStructuredArticle(title, excerpt, body, sources)
Fn_Structure ==
  /\ pc = "fn_input"
  /\ input.fn = "structure"
  /\ output' = StructuredSections(input.title, input.excerpt, input.body, input.sources)
  /\ pc' = "fn_done"
  /\ FnUnchanged

\* slugify(title)
Fn_Slugify ==
  /\ pc = "fn_input"
  /\ input.fn = "slugify"
  /\ output' = slugify(Title(input.pad, input.tail))
  /\ pc' = "fn_done"
  /\ FnUnchanged

\* parseRSS(url)
Fn_ParseRSS ==
  /\ pc = "fn_input"
  /\ input.fn = "parseRSS"
  /\ output' = FeedParser(input.fetch, input.body)
  /\ pc' = "fn_done"
  /\ FnUnchanged

FnNext ==
  \/ Fn_Structure
  \/ Fn_Slugify
  \/ Fn_ParseRSS

FnSpec == FnInit /\ [][FnNext]_vars

\* ------------------------------------------------------------- properties

Processing == pc \in {"g_ai", "g_fallback"}

\* C1: a check of the circuit made cooldown - 1 after the last quota-classified
\* AI failure skips the AI call (the candidate goes to the fallback
\* providers), and a check made cooldown + 1 after it makes the AI call.
C1_CooldownWindow ==
  Processing /\ cur.sinceQuota >= 0 =>
    /\ cur.sinceQuota = cooldownMs - 1 =>
         cur.gate = "skip" /\ cur.aiCalls = 0 /\ pc = "g_fallback"
    /\ cur.sinceQuota = cooldownMs + 1 => cur.gate = "call" /\ cur.aiCalls = 1

C1_Witness == pc = "g_ai" /\ cur.sinceQuota = cooldownMs + 1 /\ cur.aiCalls = 1

C1_WitnessSkip ==
  pc = "g_fallback" /\ cur.sinceQuota = cooldownMs - 1 /\ cur.gate = "skip"

\* The article the last resort builds from untranslated text only.
Untranslated(a, item, baseText) ==
  /\ a.Title = item.title
  /\ a.Excerpt = Slice220(item.description)
  /\ a.Content = buildStructuredArticle(
                   item.title, Slice220(item.description),
                   formatContentForReadability(baseText).value, <<item.link>>).value

\* C2: an article whose AI transform failed with a quota-classified error went
\* through the fallback providers field by field (every non-empty field was
\* sent to LibreTranslate); when no field got a translation it has
\* isTranslated = false and the untranslated title, excerpt and content.
C2_QuotaFallbackPassThrough ==
  \A k \in 1..Len(results) :
    LET a == results[k]
        item == selected[a.idx]
    IN a.trace.aiErr = "quota" =>
         /\ a.via = "failed"
         /\ <<"title", "libre">> \in a.trace.calls
         /\ a.trace.got = {} =>
              /\ ~a.isTranslated
              /\ \E b \in {<<"article", item.id>>, item.description} :
                   Untranslated(a, item, b)

C2_Witness ==
  \E k \in 1..Len(results) :
    /\ results[k].trace.aiErr = "quota"
    /\ results[k].trace.got = {}
    /\ results[k].trace.calls = Fields \X {"libre", "gtx"}
    /\ ~results[k].isTranslated

\* C3: the AI call of a candidate is made exactly when the key is configured,
\* the AI is not disabled and the circuit is closed at the check; otherwise
\* the candidate is with the fallback providers and no AI call was made.
C3_GateBeforeAI ==
  Processing =>
    IF OPENAI_API_KEY /\ ~DISABLE_AI /\ cur.gateClosed
    THEN cur.gate = "call" /\ cur.aiCalls = 1
    ELSE cur.gate = "skip" /\ cur.aiCalls = 0 /\ pc = "g_fallback" /\ cur.aiErr = "none"

C3_Witness ==
  pc = "g_fallback" /\ cur.gate = "skip" /\ ~cur.gateClosed /\ ~DISABLE_AI

FeedsFetched == Len(feedResults) > 0
EveryFeedFailed == \A f \in DOMAIN feedResults : feedResults[f].failed

\* C6: when every feed of the request failed, the response is the terminal
\* error with error and details and a non-2xx status, not a list.
C6_AllFeedsFailIsError ==
  pc = "done" /\ FeedsFetched /\ EveryFeedFailed =>
    /\ response.status = 503
    /\ response.error # ""
    /\ response.details # <<>>
    /\ response.items = <<>>

C6_Witness ==
  pc = "done" /\ FeedsFetched /\ EveryFeedFailed /\ response.status = 503

Collected == pc \in {"g_article", "g_ai", "g_fallback", "done"} /\ FeedsFetched

InPool(item) == \E k \in 1..Len(candidates) : candidates[k].id = item.id

\* C7 as amended: candidates are collected only once every feed fetch has
\* settled; a failed feed contributes no item and does not abort the batch;
\* every item of a successful feed whose link parses as an absolute URL is in
\* the candidate pool.
C7_JoinAllFeeds ==
  Collected =>
    /\ \A f \in DOMAIN feedResults : feedResults[f].status = "fulfilled"
    /\ \A f \in DOMAIN feedResults :
         /\ feedResults[f].failed => feedResults[f].value = <<>>
         /\ \A k \in 1..Len(feedResults[f].value) :
              IsAbsoluteURL(feedResults[f].value[k].link) =>
                InPool(feedResults[f].value[k])

\* C7 as stated: every item of a successful feed is in the candidate pool.
C7_Original ==
  Collected =>
    /\ \A f \in DOMAIN feedResults : feedResults[f].status = "fulfilled"
    /\ \A f \in DOMAIN feedResults :
         /\ feedResults[f].failed => feedResults[f].value = <<>>
         /\ \A k \in 1..Len(feedResults[f].value) : InPool(feedResults[f].value[k])

C7_Witness ==
  /\ Collected
  /\ \E f \in DOMAIN feedResults : feedResults[f].failed
  /\ \E f \in DOMAIN feedResults : Len(feedResults[f].value) > 0
  /\ Len(candidates) > 0

\* A candidate is valid: a title, a link that is an absolute URL, and the
\* hostname of that URL.
ValidCandidate(c) ==
  /\ Truthy(c.title)
  /\ IsAbsoluteURL(c.link)
  /\ c.hostname = Hostname(c.link)

\* C24: every candidate of the pool and of the selected list has a non-empty
\* title and an absolute URL as link, with the hostname of that URL; the
\* Sources of every article are the link of its candidate; and of a feed that
\* was read, exactly the entries with a title and an absolute link are in the
\* pool, whatever the other entries of the feed are.
C24_CandidateValidity ==
  Collected =>
    /\ \A k \in 1..Len(candidates) : ValidCandidate(candidates[k])
    /\ \A k \in 1..Len(selected) : ValidCandidate(selected[k]) /\ InPool(selected[k])
    /\ \A k \in 1..Len(results) :
         /\ results[k].Sources = <<selected[results[k].idx].link>>
         /\ IsAbsoluteURL(results[k].Sources[1])
    /\ \A f \in DOMAIN feedResults :
         \A k \in 1..Len(FeedBody(f)) :
           LET e == FeedBody(f)[k]
           IN InPool(e) <=> /\ ~feedResults[f].failed /\ feedResults[f].value # <<>>
                            /\ Truthy(e.title)
                            /\ IsAbsoluteURL(e.link)

\* Feed 2 was read: its first entry has a relative link and its last one no
\* title, and the entry between them is in the pool, selected and returned.
C24_Witness ==
  /\ pc = "done" /\ response.status = 200
  /\ Len(feedResults) >= 2 /\ ~feedResults[2].failed /\ Len(feedResults[2].value) = 2
  /\ FeedBody(2)[1].link = <<"path", 3>> /\ ~Truthy(FeedBody(2)[3].title)
  /\ InPool(FeedBody(2)[2])
  /\ \E k \in 1..Len(results) : results[k].Sources = <<FeedBody(2)[2].link>>

Skipped == {s.idx : s \in skips}

\* C8: a skipped candidate does not end the loop (at the end every candidate
\* up to min(count, selected) was visited and is an article or a skip), and
\* when every visited candidate was skipped the response is the list of their
\* feed titles and descriptions with isTranslated = false.
C8_SkipAndDegrade ==
  pc = "done" /\ Len(selected) > 0 /\ ~count.nan =>
    /\ i = (IF count.v < Len(selected) THEN count.v ELSE Len(selected))
    /\ \A k \in 1..i : k \in Skipped \/ \E j \in 1..Len(results) : results[j].idx = k
    /\ Skipped = 1..i =>
         /\ response.status = 200
         /\ Len(response.items) = i
         /\ \A k \in 1..i :
              /\ response.items[k].Title = selected[k].title
              /\ response.items[k].Excerpt = Slice220(selected[k].description)
              /\ response.items[k].Content = selected[k].description
              /\ response.items[k].Sources = <<selected[k].link>>
              /\ ~response.items[k].isTranslated

C8_Witness ==
  pc = "done" /\ Len(selected) = 2 /\ Skipped = {1, 2} /\ Len(response.items) = 2

C8_WitnessSkipOne ==
  pc = "done" /\ Skipped = {1} /\ Len(results) = 1 /\ results[1].idx = 2

\* A GET of the generator is in progress or was the last request.
GeneratorRequest == pc \in {"g_feeds", "g_article", "g_ai", "g_fallback", "done"}

IsIntegerLiteral(s) == s # <<>> /\ \A k \in 1..Len(s) : IsDigit(s[k])

ParamsValid(r) ==
  /\ Len(RSS_SOURCES(r.region, r.category)) > 0
  /\ IsIntegerLiteral(r.count)
  /\ DigitPrefix(r.count, 0) \in MinCount..MaxCount

\* C9: with the key configured, a request whose count is not an integer in
\* 3..10 or whose category or region is missing or unknown is answered with a
\* 4xx status and no feed is fetched for it.
C9_InvalidParamsRejected ==
  GeneratorRequest /\ OPENAI_API_KEY /\ ~ParamsValid(req) =>
    /\ pc = "done"
    /\ response.status \in 400..499
    /\ ~FeedsFetched

\* The candidates the loop is through with.
Visited == 1..i

\* C10: whatever the AI call and the two fallback providers of each field come
\* back with, no candidate of the generator is skipped by an exception of the
\* translation (each one processed past the extraction ends as an article with
\* Title, Excerpt, Content and a Boolean isTranslated), and a translate
\* request that has text ends with a 200 response carrying title, excerpt,
\* content and a Boolean isTranslated.
C10_PipelineNeverRaises ==
  /\ \A s \in skips : s.origin # "pipeline"
  /\ \A k \in Visited :
       \/ k \in Skipped
       \/ \E j \in 1..Len(results) :
            /\ results[j].idx = k
            /\ results[j].isTranslated \in BOOLEAN
            /\ IsString(results[j].Title)
  /\ pc = "t_done" /\ t.entered =>
       /\ response.status = 200
       /\ Len(response.items) = 1
       /\ response.items[1].isTranslated \in BOOLEAN
       /\ response.items[1].title = t.resultTitle
       /\ response.items[1].excerpt = t.resultExcerpt
       /\ response.items[1].content = t.resultContent

\* The AI of the generator answered with something that made the try block
\* throw, and every fallback call of the candidate was made and gave nothing.
C10_Witness ==
  /\ pc = "done"
  /\ \E j \in 1..Len(results) :
       /\ results[j].trace.aiErr = "other"
       /\ results[j].trace.got = {}
       /\ \A f \in Fields : <<f, "gtx">> \in results[j].trace.calls

\* The AI of the translate endpoint threw and a field's LibreTranslate call
\* rejected, and the request still ended with a response of the four fields.
C10_WitnessTranslate ==
  /\ pc = "t_done"
  /\ response.status = 200
  /\ t.aiCalls = 1
  /\ ~t.usedAI
  /\ response.items[1].title = In("title")

\* The AI of the translate endpoint answered with a non-string title.
C10_WitnessNonString ==
  pc = "t_done" /\ response.status = 200 /\ response.items[1].title = NonString

\* The text is a document built by buildStructuredArticle, with these sources.
IsStructured(content, sources) ==
  /\ Len(content) = 5
  /\ content[1] = "doc"
  /\ content[5] = sources

FallbackOf(q) == {<<"libre", q>>, <<"gtx", q>>}

\* The field is its fallback translation when it got one, else the original.
MergedField(value, got, original) ==
  IF got THEN value \in FallbackOf(original) ELSE value = original

\* C18: an article (or translate response) built by the fallback stage in
\* which some field got a fallback text has isTranslated = true, and its
\* title, excerpt and body are each the fallback translation of that field
\* when there is one and the untranslated value of that field otherwise.
C18_FallbackMerge ==
  /\ \A k \in 1..Len(results) :
       LET a == results[k]
           item == selected[a.idx]
           got == a.trace.got
       IN a.via \in {"failed", "skipped"} /\ got # {} =>
            /\ a.isTranslated
            /\ MergedField(a.Title, "title" \in got, item.title)
            /\ \E baseText \in {<<"article", item.id>>, item.description} :
                 /\ MergedField(a.Excerpt, "excerpt" \in got, Slice220(baseText))
                 /\ \E body \in (IF "content" \in got THEN FallbackOf(baseText)
                                 ELSE {baseText}) :
                      a.Content = buildStructuredArticle(
                                    a.Title, a.Excerpt,
                                    formatContentForReadability(body).value,
                                    <<item.link>>).value
  /\ pc = "t_done" /\ response.status = 200 /\ ~(\A f \in Fields : t.tr[f].value = Undefined) =>
       /\ response.items[1].isTranslated
       /\ MergedField(response.items[1].title, Truthy(t.tr["title"].value),
                      Or(t.body.title, Empty))
       /\ MergedField(response.items[1].excerpt, Truthy(t.tr["excerpt"].value),
                      Or(t.body.description,
                         IF Truthy(t.body.content) THEN Slice220(t.body.content) ELSE Empty))
       /\ MergedField(response.items[1].content, Truthy(t.tr["content"].value),
                      Or(t.body.content, SourceText(t.body)))

\* C19: LAST_AI_ERROR_AT is written only by the catch of a generator AI call
\* whose exception matches the quota signature, and then with the current
\* time; an AI success, any other AI failure, every fallback reply and every
\* other step leave it as it is, and once written it is never 0 again.
C19_CircuitWrittenOnlyOnQuota ==
  [][ /\ LAST_AI_ERROR_AT' # LAST_AI_ERROR_AT =>
           /\ pc = "g_ai" /\ pc' = "g_fallback"
           /\ cur'.aiErr = "quota"
           /\ LAST_AI_ERROR_AT' = now
      /\ LAST_AI_ERROR_AT # 0 => LAST_AI_ERROR_AT' # 0 ]_vars

\* A quota failure opened the circuit, and a later AI call, made after the
\* cooldown, failed in another way and left the timestamp alone.
C19_Witness ==
  /\ pc = "g_fallback" /\ cur.aiErr = "other"
  /\ LAST_AI_ERROR_AT # 0 /\ LAST_AI_ERROR_AT < now

\* C20: while one candidate is processed the AI provider is called at most
\* once, each field calls each fallback provider at most once, gtx only after
\* the one LibreTranslate call, and no fallback call is made while the AI call
\* is pending; a field that is empty calls no provider.
C20_SingleAttempt ==
  pc \in {"g_ai", "g_fallback"} =>
    /\ cur.aiCalls <= 1
    /\ cur.aiCalls = 1 <=> cur.gate = "call"
    /\ \A f \in Fields :
         /\ cur.tr[f].libreCalls <= 1
         /\ cur.tr[f].gtxCalls <= 1
         /\ cur.tr[f].gtxCalls = 1 => cur.tr[f].libreCalls = 1
         /\ pc = "g_ai" => cur.tr[f].libreCalls = 0 /\ cur.tr[f].gtxCalls = 0
         /\ <<f, "libre">> \in cur.calls => cur.tr[f].libreCalls = 1
         /\ <<f, "gtx">> \in cur.calls => cur.tr[f].gtxCalls = 1

\* The AI call failed, then every field called LibreTranslate and then gtx,
\* and both failed for every field.
C20_Witness ==
  /\ pc = "g_fallback" /\ cur.aiCalls = 1 /\ cur.aiErr # "none"
  /\ \A f \in Fields :
       /\ cur.tr[f].stage = "done" /\ ~Truthy(cur.tr[f].value)
       /\ cur.tr[f].libreCalls = 1 /\ cur.tr[f].gtxCalls = 1

\* One translateField in flight follows the provider order.
ProviderOrder(fs) ==
  /\ ~fs.thrown
  /\ fs.libreCalls = 0 => fs.gtxCalls = 0
  /\ fs.gtxCalls = 1 => ~Truthy(fs.viaLibre)
  /\ ~Truthy(fs.q) \/ TrimsToEmpty(fs.q) =>
       fs.libreCalls = 0 /\ fs.gtxCalls = 0 /\ fs.stage = "done" /\ fs.value = Undefined
  /\ Truthy(fs.q) /\ ~TrimsToEmpty(fs.q) => fs.libreCalls = 1
  /\ fs.stage = "libre" => fs.gtxCalls = 0
  /\ fs.stage = "gtx" => fs.gtxCalls = 1
  /\ fs.stage = "done" /\ fs.libreCalls = 1 =>
       /\ ~Truthy(fs.viaLibre) => fs.gtxCalls = 1
       /\ fs.value = IF Truthy(fs.viaLibre) THEN <<"libre", fs.q>>
                     ELSE IF Truthy(fs.viaGtx) THEN <<"gtx", fs.q>> ELSE Undefined

\* C21: in the generator and in the translate endpoint, every field asks
\* LibreTranslate first and gtx only when LibreTranslate gave no usable text;
\* an empty or blank field asks no provider; no failure of a provider
\* rejects translateField, and the text a field ends with is decided by the
\* replies to its own two calls alone.
C21_ProviderOrder ==
  /\ pc = "g_fallback" => \A f \in Fields : ProviderOrder(cur.tr[f])
  /\ pc = "t_fallback" => \A f \in Fields : ProviderOrder(t.tr[f])

\* One field got its text from LibreTranslate and never asked gtx, a second
\* one got it from gtx after LibreTranslate failed, the third got nothing
\* from either.
C21_Witness ==
  /\ pc = "g_fallback"
  /\ cur.tr["title"].value = <<"libre", cur.tr["title"].q>> /\ cur.tr["title"].gtxCalls = 0
  /\ cur.tr["excerpt"].value = <<"gtx", cur.tr["excerpt"].q>>
  /\ cur.tr["content"].stage = "done" /\ cur.tr["content"].gtxCalls = 1
  /\ cur.tr["content"].value = Undefined

\* The translate endpoint was given a blank title, which asked no provider
\* while the content was translated.
C21_WitnessBlank ==
  /\ pc = "t_fallback" /\ t.tr["title"].q = Blank /\ t.tr["title"].libreCalls = 0
  /\ Truthy(t.tr["content"].value)

\* What an article shows of the fallback stage.
Shown(a) == <<a.Title, a.Excerpt, a.Content, a.isTranslated>>

\* C25: when the three translateField calls of a candidate have settled, the
\* article is the same whether the stage was entered after a failed AI call
\* (the catch branch) or with the AI call skipped (the else branch): for the
\* candidate, base text and fallback texts at hand both branches give the
\* same title, excerpt, content and isTranslated, pass-through included.
C25_OneFallbackBehaviour ==
  pc = "g_fallback" /\ (\A f \in Fields : cur.tr[f].stage = "done" /\ ~cur.tr[f].thrown) =>
    LET item == selected[i + 1]
        afterFailure == MergeAfterFailure(i + 1, item, cur.baseText, cur.tr["title"].value,
                                          cur.tr["excerpt"].value, cur.tr["content"].value)
        whenSkipped == MergeWhenSkipped(i + 1, item, cur.baseText, cur.tr["title"].value,
                                        cur.tr["excerpt"].value, cur.tr["content"].value)
    IN /\ afterFailure.thrown = whenSkipped.thrown
       /\ ~afterFailure.thrown => Shown(afterFailure.value) = Shown(whenSkipped.value)

\* The article of the generator that carries the feed's title, the feed's
\* description as excerpt and a document built from untranslated text only.
AllOriginal(a, item) ==
  /\ a.Title = item.title
  /\ a.Excerpt \in {Slice220(item.description), Slice220(<<"article", item.id>>)}
  /\ \E baseText \in {<<"article", item.id>>, item.description} :
       \E body \in {baseText, toParagraphs(baseText)} :
         a.Content = buildStructuredArticle(item.title, a.Excerpt,
                                            formatContentForReadability(body).value,
                                            <<item.link>>).value

\* C26: an article with isTranslated = true has a title, an excerpt or a
\* content that a provider produced: it is not the article made of the
\* original texts only; and a translate response with isTranslated = true
\* does not carry the three texts of the request unchanged.
C26_TranslatedMeansProduced ==
  /\ \A k \in 1..Len(results) :
       results[k].isTranslated => ~AllOriginal(results[k], selected[results[k].idx])
  /\ pc = "t_done" /\ response.status = 200 /\ response.items[1].isTranslated =>
       ~ /\ response.items[1].title = Or(t.body.title, Empty)
         /\ response.items[1].excerpt =
              Or(t.body.description,
                 IF Truthy(t.body.content) THEN Slice220(t.body.content) ELSE Empty)
         /\ response.items[1].content = Or(t.body.content, Empty)

\* C27: with requests running side by side, no step lowers LAST_AI_ERROR_AT
\* and it is never later than the current time, whatever the order in which
\* the AI calls of the requests fail.
C27_TimestampMonotone ==
  [][ /\ LAST_AI_ERROR_AT <= now
      /\ LAST_AI_ERROR_AT' >= LAST_AI_ERROR_AT
      /\ LAST_AI_ERROR_AT' <= now' ]_vars

\* A race: the quota failure of a request replaced a timestamp that another
\* request had written after this one's AI call was started.
C27_Witness ==
  \E r \in Requests :
    /\ pending[r].stage = "idle"
    /\ pending[r].overwrote > pending[r].startedAt
    /\ pending[r].startedAt > 0
    /\ LAST_AI_ERROR_AT >= pending[r].overwrote

\* C28 (amended): a check of the circuit made before any quota failure
\* (LAST_AI_ERROR_AT = 0) makes the AI call when the key is configured and
\* the AI is not disabled; a check made exactly cooldown after the last quota
\* failure skips the AI call, and one made later than that makes it.
C28_Boundary ==
  Processing =>
    /\ cur.sinceQuota = 0 - 1 /\ OPENAI_API_KEY /\ ~DISABLE_AI =>
         cur.gate = "call" /\ cur.aiCalls = 1
    /\ cur.sinceQuota = cooldownMs =>
         cur.gate = "skip" /\ cur.aiCalls = 0 /\ pc = "g_fallback"
    /\ cur.sinceQuota > cooldownMs => cur.gate = "call" /\ cur.aiCalls = 1

\* C28 as stated: before any quota failure the AI call is made whenever the
\* key is configured.
C28_Original ==
  Processing =>
    /\ cur.sinceQuota = 0 - 1 /\ OPENAI_API_KEY => cur.gate = "call" /\ cur.aiCalls = 1
    /\ cur.sinceQuota = cooldownMs =>
         cur.gate = "skip" /\ cur.aiCalls = 0 /\ pc = "g_fallback"
    /\ cur.sinceQuota > cooldownMs => cur.gate = "call" /\ cur.aiCalls = 1

\* The check is made exactly cooldown after the quota failure.
C28_Witness ==
  /\ pc = "g_fallback" /\ cur.sinceQuota = cooldownMs /\ cur.gate = "skip"
  /\ now - LAST_AI_ERROR_AT = cooldownMs

\* The first check of the process, with key and AI enabled.
C28_WitnessNeverFailed ==
  /\ pc = "g_ai" /\ cur.sinceQuota = 0 - 1 /\ LAST_AI_ERROR_AT = 0

\* C29: a generator request that got past the parameter checks (its feeds
\* were fetched) and has a candidate ends with a non-empty selected list and
\* a 200 response listing at least one and at most count articles, never
\* with the 500 response.
C29_CandidatesGiveArticles ==
  pc = "done" /\ FeedsFetched /\ Len(candidates) > 0 =>
    /\ Len(selected) > 0
    /\ response.status = 200
    /\ Len(response.items) >= 1
    /\ ~count.nan /\ Len(response.items) <= count.v

\* The number of candidates the loop is to visit: min(count, |selected|).
Prefix ==
  IF count.nan THEN 0 ELSE IF count.v < Len(selected) THEN count.v ELSE Len(selected)

\* The articles are in the order of their candidates, each with its
\* candidate's link as Sources and the slug of its own title.
OrderedArticlesOf(arts) ==
  /\ \A k \in 1..Len(arts) :
       /\ arts[k].idx \in 1..Prefix
       /\ arts[k].Sources = <<selected[arts[k].idx].link>>
       /\ arts[k].Slug = <<"slug", arts[k].Title>>
  /\ \A j, k \in 1..Len(arts) : j < k => arts[j].idx < arts[k].idx

\* C30: the loop only ever works on one of the first min(count, |selected|)
\* selected candidates, skipped or not; the articles built and the articles
\* returned are in the order of their candidates, one for each candidate of
\* that prefix that was not skipped, with Sources = [the candidate's link] and
\* Slug = slugify(Title); no candidate after the prefix gets an article.
C30_OnlyPrefixEnriched ==
  /\ i <= Prefix
  /\ pc \in {"g_article", "g_ai", "g_fallback"} => i + 1 <= Prefix
  /\ \A s \in skips : s.idx \in 1..Prefix
  /\ OrderedArticlesOf(results)
  /\ \A k \in 1..Len(results) : results[k].idx <= i /\ results[k].idx \notin Skipped
  /\ pc = "done" /\ response.status = 200 =>
       /\ OrderedArticlesOf(response.items)
       /\ {results[k].idx : k \in 1..Len(results)} \cup Skipped = 1..Prefix
       /\ results # <<>> => response.items = results

\* Five candidates were selected for count = 3; the second one was skipped,
\* the first and the third are returned and the fourth and fifth were not
\* touched.
C30_Witness ==
  /\ pc = "done" /\ response.status = 200
  /\ Len(selected) = 5 /\ count = Num(3)
  /\ Skipped = {2}
  /\ Len(response.items) = 2
  /\ response.items[1].idx = 1 /\ response.items[2].idx = 3

\* C17: no AI call is made while the circuit is open: when the generator or
\* the translate endpoint starts an AI call, more than the cooldown has passed
\* since the last quota-classified failure.
C17_NoAICallWhileOpen ==
  /\ pc = "g_ai" => cur.gateClosed
  /\ pc = "t_ai" => ~t.circuitOpen

\* C16: every outbound call of a generator request is bounded by a timeout,
\* so a request that has started fetching its feeds is answered in the end,
\* whatever upstream stays silent.
C16_RequestCompletes == (pc = "g_feeds") ~> (pc = "done")

\* ----------------------------------------------- properties of the selector

HostsOf(seq) == {seq[k].hostname : k \in 1..Len(seq)}
Admitted(seq, h) == Cardinality({k \in 1..Len(seq) : seq[k].hostname = h})

\* C4: the selected list has at most 2 items of any hostname and is
\* non-increasing in publication time, items of equal time in their order of
\* encounter.
C4_DiverseAndSorted ==
  pc = "sel_done" =>
    /\ \A h \in HostsOf(selected) : Admitted(selected, h) <= 2
    /\ \A j, k \in 1..Len(selected) :
         j < k =>
           \/ selected[j].pubDate > selected[k].pubDate
           \/ /\ selected[j].pubDate = selected[k].pubDate
              /\ selected[j].id < selected[k].id

C4_Witness ==
  /\ pc = "sel_done"
  /\ \E h \in HostsOf(candidates) : Admitted(candidates, h) >= 3
  /\ \E j, k \in 1..Len(selected) :
       j < k /\ selected[j].pubDate = selected[k].pubDate
  /\ \E j, k \in 1..Len(selected) :
       j < k /\ selected[j].id > selected[k].id

\* The sorted candidates that are among the first 2 of their hostname.
Admissible == { k \in 1..Len(candidates) :
                  Cardinality({j \in 1..k : candidates[j].hostname = candidates[k].hostname})
                    <= 2 }

\* C5: for a count N of 3..10 the selected list is the first 2 x N admissible
\* candidates of the sorted pool, or all of them when there are fewer: never
\* more than 2 x N items.
C5_StopsAtTwiceCount ==
  pc = "sel_done" =>
    /\ Len(selected) <= 2 * count.v
    /\ Len(selected) = (IF Cardinality(Admissible) < 2 * count.v
                        THEN Cardinality(Admissible) ELSE 2 * count.v)
    /\ \A j \in 1..Len(selected) :
         \E k \in Admissible :
           /\ selected[j] = candidates[k]
           /\ Cardinality({m \in Admissible : m < k}) = j - 1

C5_Witness ==
  /\ pc = "sel_done"
  /\ count.v = 3
  /\ Cardinality(Admissible) = 7
  /\ Len(selected) = 6

\* ------------------------------------------- properties of single functions

Structured == pc = "fn_done" /\ input.fn = "structure"

\* The number of places where the sentence occurs in a sequence of words.
Occurs(sentence, words) ==
  Cardinality({p \in 1..(Len(words) - Len(sentence) + 1) :
                 SubSeq(words, p, p + Len(sentence) - 1) = sentence})

\* The words of the four sections, and of all but the conclusion.
BeforeConclusion == output.Introduction \o Join(output.KeyPoints) \o Join(output.Details)
FourSections == BeforeConclusion \o output.Conclusion

\* C11: every sentence of the body occurs exactly once across introduction,
\* key points, details and conclusion; in a body of fewer than 5 sentences a
\* sentence of the introduction may occur in the conclusion once more.
C11_Partition ==
  Structured =>
    LET sents == splitSentences(input.body)
    IN \A k \in 1..Len(sents) :
         \/ Occurs(sents[k], FourSections) = 1
         \/ /\ Len(sents) < 5
            /\ Occurs(sents[k], BeforeConclusion) = 1
            /\ Occurs(sents[k], output.Introduction) = 1
            /\ Occurs(sents[k], output.Conclusion) = 1

\* Sentences a..b of sents, those that exist, as a sequence of sentences.
Window(sents, a, b) ==
  LET last == IF b > Len(sents) THEN Len(sents) ELSE b
  IN [k \in 1..(IF last < a THEN 0 ELSE last - a + 1) |-> sents[a + k - 1]]

\* Sentences a, a+1, ... of sents joined two by two.
Pairs(sents, a) ==
  LET left == IF Len(sents) < a THEN 0 ELSE Len(sents) - a + 1
  IN [j \in 1..((left + 1) \div 2) |->
        Join(Window(sents, a + 2 * (j - 1), a + 2 * (j - 1) + 1))]

\* C22 (amended): for a body of sentences s1..sN the introduction is s1..s3,
\* the excerpt is the first 13 sentences s1..s13 (the excerpt passed in when
\* the body has no sentence), the key points are s4..s9 and the details are
\* s10..sN joined two by two in order.
C22_Slicing ==
  Structured =>
    LET sents == splitSentences(input.body)
    IN /\ output.Introduction = Join(Window(sents, 1, 3))
       /\ output.Excerpt = IF sents # <<>> THEN Join(Window(sents, 1, 13))
                           ELSE Or(input.excerpt, Empty)
       /\ output.KeyPoints = Window(sents, 4, 9)
       /\ output.Details = Pairs(sents, 10)

\* C22 as stated: the excerpt is s4..s16, the key points are s17..s22 and the
\* details are s23..sN joined two by two.
C22_Original ==
  Structured =>
    LET sents == splitSentences(input.body)
    IN /\ output.Introduction = Join(Window(sents, 1, 3))
       /\ Len(sents) > 3 => output.Excerpt = Join(Window(sents, 4, 16))
       /\ output.KeyPoints = Window(sents, 17, 22)
       /\ output.Details = Pairs(sents, 23)

\* A body of 14 sentences: both caps bite and the last paragraph of the
\* details is a single sentence.
C22_Witness ==
  /\ Structured /\ Len(splitSentences(input.body)) = 14
  /\ Len(output.KeyPoints) = 6 /\ Len(output.Details) = 3

Slugged == pc = "fn_done" /\ input.fn = "slugify"

\* C12: a slug is lowercase, made of letters, digits and single hyphens, at
\* most 96 characters long, neither starts nor ends with a hyphen, and
\* slugify(slug) = slug.
C12_SlugShapeAndIdempotent ==
  Slugged =>
    /\ \A k \in 1..Len(output) : output[k] \in {"a", "b", "th", "-"}
    /\ \A k \in 1..(Len(output) - 1) : ~(output[k] = "-" /\ output[k + 1] = "-")
    /\ Len(output) <= SlugLimit
    /\ output # <<>> => output[1] # "-" /\ output[Len(output)] # "-"
    /\ slugify(output) = output

Parsed == pc = "fn_done" /\ input.fn = "parseRSS"

\* C14: parseRSS returns the empty list, and does not throw, when the fetch
\* fails, when the response is not 2xx, and when the body contains none of
\* "<rss", "<feed", "<?xml".
C14_NotXmlIsEmpty ==
  Parsed /\ (input.fetch # "ok" \/ input.body.markers = {}) =>
    /\ ~output.thrown
    /\ output.value = <<>>

\* A body without a marker whose item has a title and a link.
C14_Witness ==
  /\ Parsed
  /\ input.fetch = "ok"
  /\ input.body.markers = {}
  /\ input.body.items[1].titled
  /\ ExtractLink(input.body.items[1].elems) # Empty
  /\ output = Return(<<>>)

\* The date element the stated order picks: the first pubDate, else the first
\* published, else the first dc:date, else the first updated.
ByTagPriority(dates) ==
  LET tagged(p) == {k \in 1..Len(dates) : dates[k].tag = DateTags[p]}
      p == CHOOSE q \in 1..4 : tagged(q) # {} /\ \A r \in 1..(q - 1) : tagged(r) = {}
  IN CHOOSE k \in tagged(p) : \A j \in tagged(p) : k <= j

\* C23: the publishedAt of a parsed item is the value of its pubDate element,
\* else of its published, else of its dc:date, else of its updated element,
\* wherever the elements stand in the item; without a date element, or when
\* the chosen value does not parse, it is the current time; and the item is
\* retained whatever its dates are.
C23_DatePriority ==
  Parsed /\ input.fetch = "ok" /\ input.body.markers # {}
         /\ input.body.items[1].titled /\ ExtractLink(input.body.items[1].elems) # Empty =>
    LET dates == input.body.items[1].dates
    IN /\ Len(output.value) = 1
       /\ output.value[1].pubDate =
            IF dates = <<>> THEN CurrentTime
            ELSE LET k == ByTagPriority(dates)
                 IN IF dates[k].text = "date" THEN <<"date", dates[k].tag, k>>
                    ELSE CurrentTime

KindsOf(item) == {item.elems[k].kind : k \in 1..Len(item.elems)}

\* C15: the link of a parsed item is the value of its href link when it has
\* one, else that of its tag-content link when it has one, else that of its
\* GUID with isPermaLink="true", wherever these elements stand in the item.
C15_LinkPriority ==
  Parsed /\ output.value # <<>> =>
    LET item == input.body.items[1]
        link == output.value[1].link
    IN /\ "href" \in KindsOf(item) => link[2] = "href"
       /\ link[2] = "text" => "href" \notin KindsOf(item)
       /\ link[2] = "permalink" => KindsOf(item) \cap {"href", "text"} = {}
       /\ link[2] # "guid"

\* The href link comes last in the item, after a tag-content link and a GUID.
C15_Witness ==
  /\ Parsed
  /\ output.value # <<>>
  /\ Len(input.body.items[1].elems) = 3
  /\ input.body.items[1].elems[1].kind = "permalink"
  /\ input.body.items[1].elems[2].kind = "text"
  /\ input.body.items[1].elems[3].kind = "href"
  /\ output.value[1].link = <<"url", "href", 3>>

====
